---- MODULE Spec2Model ----
(***************************************************************************)
(* Model of the coil configuration-composition engine (package coil):      *)
(* the registration pass defineFlagsFromStructWithPrefix, the assignment   *)
(* pass setPropertiesFromFlagsWithPrefix, Config.generate, CreateViper and *)
(* NewConfig, together with the parts of pflag and viper they call.        *)
(*                                                                         *)
(* Strings are TLA+ strings, handled character by character.  A Go value   *)
(* travelling through viper is a tagged record [t, v] with t one of        *)
(* "nil", "s" (string), "i" (int), "b" (bool), "f" (float), "l" (list).    *)
(* A float is the record [neg, ip, frac]: sign, integer part and the       *)
(* decimal digits after the point without trailing zeros.  A duration is   *)
(* a number of milliseconds.                                               *)
(***************************************************************************)
EXTENDS Integers, Sequences, FiniteSets, TLC

(***************************************************************************)
(* Bounds of the model.                                                    *)
(***************************************************************************)
\* number of structure instances the callers allocate and compose
MaxCalls == 2

(***************************************************************************)
(* strings, strconv, time.ParseDuration                                    *)
(***************************************************************************)
LowerLetters == "abcdefghijklmnopqrstuvwxyz"
UpperLetters == "ABCDEFGHIJKLMNOPQRSTUVWXYZ"
Digits == "0123456789"

RECURSIVE IndexOf(_, _, _)
\* position of the one-character string c in s at or after i, 0 if absent
IndexOf(c, s, i) ==
  IF i > Len(s) THEN 0
  ELSE IF SubSeq(s, i, i) = c THEN i ELSE IndexOf(c, s, i + 1)

\* unicode.ToUpper and unicode.ToLower on the letters a-z and A-Z
UpperOf ==
  [c \in { SubSeq(LowerLetters, i, i) : i \in 1..26 } |->
     SubSeq(UpperLetters, IndexOf(c, LowerLetters, 1), IndexOf(c, LowerLetters, 1))]

LowerOf ==
  [c \in { SubSeq(UpperLetters, i, i) : i \in 1..26 } |->
     SubSeq(LowerLetters, IndexOf(c, UpperLetters, 1), IndexOf(c, UpperLetters, 1))]

UpperChar(c) == IF c \in DOMAIN UpperOf THEN UpperOf[c] ELSE c

LowerChar(c) == IF c \in DOMAIN LowerOf THEN LowerOf[c] ELSE c

RECURSIVE ToUpper(_)
ToUpper(s) == IF s = "" THEN "" ELSE UpperChar(Head(s)) \o ToUpper(Tail(s))

RECURSIVE ToLower(_)
ToLower(s) == IF s = "" THEN "" ELSE LowerChar(Head(s)) \o ToLower(Tail(s))

IsDigit(c) == IndexOf(c, Digits, 1) # 0
DigitVal(c) == IndexOf(c, Digits, 1) - 1

RECURSIVE AllDigits(_)
AllDigits(s) == IF s = "" THEN TRUE ELSE IsDigit(Head(s)) /\ AllDigits(Tail(s))

RECURSIVE DigitsVal(_, _)
\* value of the digit string s, acc being the value of the digits read so far
DigitsVal(s, acc) ==
  IF s = "" THEN acc ELSE DigitsVal(Tail(s), acc * 10 + DigitVal(Head(s)))

\* strconv.Atoi and strconv.ParseInt(s, 10, 64): optional sign, decimal digits
Atoi(s) ==
  LET signed == s # "" /\ Head(s) \in {"+", "-"}
      body == IF signed THEN Tail(s) ELSE s
  IN  IF body = "" \/ ~AllDigits(body) THEN [ok |-> FALSE, val |-> 0]
      ELSE [ok |-> TRUE,
            val |-> IF signed /\ Head(s) = "-" THEN 0 - DigitsVal(body, 0)
                    ELSE DigitsVal(body, 0)]

RECURSIVE NatToString(_)
NatToString(n) ==
  IF n < 10 THEN SubSeq(Digits, n + 1, n + 1)
  ELSE NatToString(n \div 10) \o SubSeq(Digits, (n % 10) + 1, (n % 10) + 1)

\* strconv.Itoa / FormatInt(n, 10)
Itoa(n) == IF n < 0 THEN "-" \o NatToString(0 - n) ELSE NatToString(n)

RECURSIVE TrimZeros(_)
\* s without its trailing "0" characters
TrimZeros(s) ==
  IF s = "" THEN ""
  ELSE IF SubSeq(s, Len(s), Len(s)) = "0" THEN TrimZeros(SubSeq(s, 1, Len(s) - 1))
  ELSE s

FloatZero == [neg |-> FALSE, ip |-> 0, frac |-> ""]

\* number of decimal digits a 32-bit float keeps after the point in this model
F32Digits == 6

\* strconv.ParseFloat(s, bitSize) for plain decimal literals: [sign] digits [. digits]
ParseFloat(s, bitSize) ==
  LET signed == s # "" /\ Head(s) \in {"+", "-"}
      body == IF signed THEN Tail(s) ELSE s
      dot == IndexOf(".", body, 1)
      ipart == IF dot = 0 THEN body ELSE SubSeq(body, 1, dot - 1)
      fpart == IF dot = 0 THEN "" ELSE SubSeq(body, dot + 1, Len(body))
      kept == IF bitSize = 32 /\ Len(fpart) > F32Digits
              THEN SubSeq(fpart, 1, F32Digits) ELSE fpart
      good == /\ ipart \o fpart # ""
              /\ AllDigits(ipart)
              /\ AllDigits(fpart)
      zero == DigitsVal(ipart, 0) = 0 /\ TrimZeros(kept) = ""
  IN  IF ~good THEN [ok |-> FALSE, val |-> FloatZero]
      ELSE [ok |-> TRUE,
            val |-> [neg |-> signed /\ Head(s) = "-" /\ ~zero,
                     ip |-> DigitsVal(ipart, 0),
                     frac |-> TrimZeros(kept)]]

\* float32(x): conversion of a float64 to the 32-bit width
Float32Of(x) ==
  [x EXCEPT !.frac = TrimZeros(IF Len(x.frac) > F32Digits
                               THEN SubSeq(x.frac, 1, F32Digits) ELSE x.frac)]

\* strconv.FormatFloat(x, 'g', -1, 64) for the values of the model
FormatFloat(x) ==
  (IF x.neg THEN "-" ELSE "") \o NatToString(x.ip)
    \o (IF x.frac = "" THEN "" ELSE "." \o x.frac)

\* milliseconds in one unit of a duration literal
UnitMillis(u) ==
  CASE u = "ms" -> 1
    [] u = "s" -> 1000
    [] u = "m" -> 60000
    [] u = "h" -> 3600000
    [] OTHER -> 0

RECURSIVE DigitPrefixLen(_, _)
\* length of the longest prefix of s made of digits, counted from n
DigitPrefixLen(s, n) ==
  IF s = "" \/ ~IsDigit(Head(s)) THEN n ELSE DigitPrefixLen(Tail(s), n + 1)

\* time.ParseDuration for single-component literals such as "15s" and for "0"
ParseDuration(s) ==
  LET n == DigitPrefixLen(s, 0)
      num == SubSeq(s, 1, n)
      unit == SubSeq(s, n + 1, Len(s))
  IN  IF s = "0" THEN [ok |-> TRUE, val |-> 0]
      ELSE IF n = 0 \/ UnitMillis(unit) = 0 THEN [ok |-> FALSE, val |-> 0]
      ELSE [ok |-> TRUE, val |-> DigitsVal(num, 0) * UnitMillis(unit)]

\* time.Duration.String for whole numbers of seconds and of milliseconds
FormatDuration(d) ==
  IF d = 0 THEN "0s"
  ELSE IF d % 1000 = 0 THEN Itoa(d \div 1000) \o "s"
  ELSE Itoa(d) \o "ms"

RECURSIVE Split(_, _)
\* strings.Split(s, sep) for a one-character separator
Split(s, sep) ==
  LET i == IndexOf(sep, s, 1)
  IN  IF i = 0 THEN <<s>>
      ELSE <<SubSeq(s, 1, i - 1)>> \o Split(SubSeq(s, i + 1, Len(s)), sep)

RECURSIVE Join(_, _)
\* strings.Join(xs, sep)
Join(xs, sep) ==
  IF xs = <<>> THEN ""
  ELSE IF Len(xs) = 1 THEN xs[1]
  ELSE xs[1] \o sep \o Join(Tail(xs), sep)

\* strconv.ParseBool
ParseBool(s) ==
  IF s \in {"1", "t", "T", "TRUE", "true", "True"} THEN [ok |-> TRUE, val |-> TRUE]
  ELSE IF s \in {"0", "f", "F", "FALSE", "false", "False"} THEN [ok |-> TRUE, val |-> FALSE]
  ELSE [ok |-> FALSE, val |-> FALSE]

FormatBool(b) == IF b THEN "true" ELSE "false"

(***************************************************************************)
(* Structure definitions.  A field is a record: fname is the Go field      *)
(* name, kind its reflect.Kind, anon tells an embedded field, styp the     *)
(* type of a struct field, tags the struct tag (Tag.Get gives "" for an    *)
(* absent key).                                                            *)
(***************************************************************************)
Tags(type, name, default, prefix) ==
  [type |-> type, name |-> name, default |-> default, prefix |-> prefix]

Leaf(fname, kind, type, name, default) ==
  [fname |-> fname, kind |-> kind, anon |-> FALSE, styp |-> "",
   tags |-> Tags(type, name, default, "")]

Sub(fname, styp, prefix) ==
  [fname |-> fname, kind |-> "struct", anon |-> FALSE, styp |-> styp,
   tags |-> Tags("", "", "", prefix)]

Embedded(styp) ==
  [fname |-> styp, kind |-> "struct", anon |-> TRUE, styp |-> styp,
   tags |-> Tags("", "", "", "")]

\* type Config struct { viper *viper.Viper }
Config == << Leaf("viper", "ptr", "", "", "") >>

APIServiceConfig ==
  << Leaf("Version", "string", "string", "version", "1.0.0"),
     Leaf("Name", "string", "string", "name", "service-api"),
     Leaf("Build", "string", "string", "build", "UNSPECIFIED"),
     Leaf("Host", "string", "string", "host", "localhost"),
     Leaf("URL", "string", "string", "api_url", ""),
     Leaf("Port", "int", "int", "port", "80"),
     Leaf("Timeout", "int64", "duration", "timeout", "15s") >>

DatabaseConfig ==
  << Leaf("DBHost", "string", "string", "dbhost", "localhost"),
     Leaf("DBUser", "string", "string", "dbuser", ""),
     Leaf("DBName", "string", "string", "dbname", ""),
     Leaf("DBPass", "string", "string", "dbpass", ""),
     Leaf("DBSSL", "string", "string", "dbssl", "disable"),
     Leaf("DBDebug", "bool", "string", "dbdebug", ""),
     Leaf("DBPort", "int", "int", "dbport", "5432") >>

AllTypesStruct ==
  << Leaf("StringField", "string", "string", "test_string", "default_string"),
     Leaf("IntField", "int", "int", "test_int", "42"),
     Leaf("BoolFieldT", "bool", "bool", "test_bool_true", "true"),
     Leaf("BoolFieldF", "bool", "bool", "test_bool_false", "false"),
     Leaf("Float32Field", "float32", "float32", "test_float32", "3.14"),
     Leaf("Float64Field", "float64", "float64", "test_float64", "2.718281828") >>

OuterStruct ==
  << Leaf("OuterField", "string", "string", "field", "outer_default"),
     Sub("Inner", "InnerStruct", "inner") >>

InnerStruct ==
  << Leaf("InnerField", "string", "string", "field", "inner_default") >>

RegularStruct ==
  << Leaf("Value", "string", "string", "value", "default_val") >>

SimpleStruct ==
  << Leaf("Field", "string", "string", "merge_test_field", "merge_default") >>

\* Structures beyond those of the repository, to cover the cases the
\* repository's own structures leave out.
\* four levels, the second without a prefix tag
DeepOuter ==
  << Leaf("Field", "string", "string", "field", "d1"),
     Sub("Mid", "DeepMid", "") >>

DeepMid ==
  << Leaf("Count", "int", "int", "count", "2"),
     Sub("Inner", "DeepInner", "inner") >>

DeepInner ==
  << Leaf("Field", "string", "string", "field", "d3"),
     Sub("Last", "DeepLast", "last") >>

DeepLast ==
  << Leaf("Field", "string", "string", "field", "d4") >>

\* a list field, leaves without a name, without a type, with a bad default,
\* booleans whose default is not spelled "true"
LooseStruct ==
  << Leaf("WithTag", "string", "string", "with_tag", "tagged"),
     Leaf("WithoutTag", "string", "", "", ""),
     Leaf("NoName", "string", "string", "", "hidden"),
     Leaf("NoNameFlag", "bool", "bool", "", "true"),
     Leaf("Tags", "slice", "[]string", "tags", "a,b"),
     Leaf("BadInt", "int", "int", "bad_int", "abc"),
     Leaf("NoType", "string", "", "no_type", "untyped"),
     Leaf("Upper", "bool", "bool", "upper", "TRUE"),
     Leaf("One", "bool", "bool", "one", "1"),
     Leaf("Blank", "bool", "bool", "blank", "") >>

\* structures with a Parse method
HookEmbedded ==
  << Leaf("HookVal", "string", "string", "hook_val", "h1") >>

HookNamed ==
  << Leaf("Val", "string", "string", "val", "h2"),
     Embedded("HookLeaf") >>

HookLeaf ==
  << Leaf("LeafVal", "int", "int", "leaf_val", "3") >>

\* a second structure declaring merge_test_field and test_int, with other
\* defaults
OtherStruct ==
  << Leaf("Field", "string", "string", "merge_test_field", "other_default"),
     Leaf("Int", "int", "int", "test_int", "7") >>

\* pre + "_" + value and pre_value: two leaves composing to one name
PreStruct ==
  << Leaf("Value", "string", "string", "pre_value", "right") >>

TypeNames ==
  { "Config", "APIServiceConfig", "DatabaseConfig", "AllTypesStruct",
    "OuterStruct", "InnerStruct", "RegularStruct", "SimpleStruct",
    "DeepOuter", "DeepMid", "DeepInner", "DeepLast", "LooseStruct",
    "HookEmbedded", "HookNamed", "HookLeaf", "OtherStruct", "PreStruct",
    "AllTypesConfig", "ServiceConfig", "ConfigWithPrefix",
    "NestedPrefixConfig", "MixedPrefixConfig", "SimpleCfg", "DeepConfig",
    "LooseConfig", "HookConfig", "OtherCfg", "DupConfig" }

\* reflect.Type of each structure: its fields in declaration order
Fields(t) ==
  CASE t = "Config" -> Config
    [] t = "APIServiceConfig" -> APIServiceConfig
    [] t = "DatabaseConfig" -> DatabaseConfig
    [] t = "AllTypesStruct" -> AllTypesStruct
    [] t = "OuterStruct" -> OuterStruct
    [] t = "InnerStruct" -> InnerStruct
    [] t = "RegularStruct" -> RegularStruct
    [] t = "SimpleStruct" -> SimpleStruct
    [] t = "DeepOuter" -> DeepOuter
    [] t = "DeepMid" -> DeepMid
    [] t = "DeepInner" -> DeepInner
    [] t = "DeepLast" -> DeepLast
    [] t = "LooseStruct" -> LooseStruct
    [] t = "HookEmbedded" -> HookEmbedded
    [] t = "HookNamed" -> HookNamed
    [] t = "HookLeaf" -> HookLeaf
    [] t = "OtherStruct" -> OtherStruct
    [] t = "PreStruct" -> PreStruct
    [] t = "AllTypesConfig" ->
         << Embedded("Config"), Sub("TypesStruct", "AllTypesStruct", "") >>
    [] t = "ServiceConfig" ->
         << Embedded("Config"), Embedded("APIServiceConfig") >>
    [] t = "ConfigWithPrefix" ->
         << Embedded("Config"), Sub("PrimaryDB", "DatabaseConfig", "primary"),
            Sub("ReplicaDB", "DatabaseConfig", "replica") >>
    [] t = "NestedPrefixConfig" ->
         << Embedded("Config"), Sub("Outer", "OuterStruct", "outer") >>
    [] t = "MixedPrefixConfig" ->
         << Embedded("Config"), Sub("Regular", "RegularStruct", ""),
            Sub("Prefixed", "RegularStruct", "prefixed") >>
    [] t = "SimpleCfg" ->
         << Embedded("Config"), Sub("Simple", "SimpleStruct", "") >>
    [] t = "DeepConfig" ->
         << Embedded("Config"), Sub("Outer", "DeepOuter", "deep") >>
    [] t = "LooseConfig" ->
         << Embedded("Config"), Sub("Loose", "LooseStruct", "loose") >>
    [] t = "HookConfig" ->
         << Embedded("Config"), Embedded("HookEmbedded"),
            Sub("Named", "HookNamed", "named") >>
    [] t = "OtherCfg" ->
         << Embedded("Config"), Sub("Other", "OtherStruct", "") >>
    [] t = "DupConfig" ->
         << Embedded("Config"), Sub("Left", "RegularStruct", "pre"),
            Sub("Right", "PreStruct", "") >>

\* the structures a caller passes to NewConfig
Structures ==
  { "AllTypesConfig", "ServiceConfig", "ConfigWithPrefix",
    "NestedPrefixConfig", "MixedPrefixConfig", "SimpleCfg", "DeepConfig",
    "LooseConfig", "HookConfig", "OtherCfg", "DupConfig" }

\* the structures that declare a method Parse(*viper.Viper)
DeclaresParse == { "HookEmbedded", "HookNamed", "HookLeaf" }

(***************************************************************************)
(* pflag.  A flag is [vtype, def, value, changed]: the name of its value   *)
(* type, the text of its default, the text of its current value and        *)
(* whether the command line has set it.  A flag set is [flags, panic]:     *)
(* the flags by name and the message of the panic raised on it ("" if      *)
(* none).                                                                  *)
(***************************************************************************)
NewFlag(vtype, value) ==
  [vtype |-> vtype, def |-> value, value |-> value, changed |-> FALSE]

\* pflag.NewFlagSet
NewFlagSet == [flags |-> <<>>, panic |-> ""]

\* FlagSet.Lookup(name) # nil
Lookup(fs, name) == name \in DOMAIN fs.flags

\* an AddFlag that replaces the flag a name already has
AddFlagOverwriting(fs, name, flag) ==
  IF fs.panic # "" THEN fs
  ELSE [fs EXCEPT !.flags = (name :> flag) @@ [n \in DOMAIN fs.flags \ {name} |-> fs.flags[n]]]

\* FlagSet.AddFlag: a name already in the set panics; the message starts
\* with the name of the flag set, "config" for every set the code creates
AddFlag(fs, name, flag) ==
  IF fs.panic # "" THEN fs
  ELSE IF Lookup(fs, name) THEN [fs EXCEPT !.panic = "config flag redefined: " \o name]
  ELSE [fs EXCEPT !.flags = (name :> flag) @@ fs.flags]

RECURSIVE AddFlags(_, _, _)
\* AddFlag for every flag of newSet whose name is in names
AddFlags(fs, newSet, names) ==
  IF names = {} THEN fs
  ELSE LET n == CHOOSE m \in names : TRUE
       IN  AddFlags(AddFlag(fs, n, newSet.flags[n]), newSet, names \ {n})

\* an AddFlagSet that declares every flag of newSet again
AddFlagSetRedeclaring(fs, newSet) == AddFlags(fs, newSet, DOMAIN newSet.flags)

\* FlagSet.AddFlagSet: adds the flags of newSet whose name fs does not have
AddFlagSet(fs, newSet) ==
  AddFlags(fs, newSet, {n \in DOMAIN newSet.flags : ~Lookup(fs, n)})

\* the text pflag keeps for a []string value
SliceString(xs) == "[" \o Join(xs, ",") \o "]"

\* Flag.Value.Set(s): the new value text, or failure when s does not parse
FlagValueSet(flag, s) ==
  CASE flag.vtype = "int64" ->
         [ok |-> Atoi(s).ok, value |-> Itoa(Atoi(s).val)]
    [] flag.vtype = "bool" ->
         [ok |-> ParseBool(s).ok, value |-> FormatBool(ParseBool(s).val)]
    [] flag.vtype = "float32" ->
         [ok |-> ParseFloat(s, 32).ok, value |-> FormatFloat(ParseFloat(s, 32).val)]
    [] flag.vtype = "float64" ->
         [ok |-> ParseFloat(s, 64).ok, value |-> FormatFloat(ParseFloat(s, 64).val)]
    [] flag.vtype = "duration" ->
         [ok |-> ParseDuration(s).ok, value |-> FormatDuration(ParseDuration(s).val)]
    [] flag.vtype = "stringSlice" ->
         [ok |-> TRUE, value |-> SliceString(Split(s, ","))]
    [] OTHER -> [ok |-> TRUE, value |-> s]

RECURSIVE ParseArgs(_, _)
\* FlagSet.Parse(arguments) on the process-wide set, whose error handling is
\* ExitOnError: an unknown flag or a value that does not parse ends the process
ParseArgs(fs, arguments) ==
  IF arguments = <<>> THEN [flags |-> fs.flags, exit |-> FALSE]
  ELSE LET a == Head(arguments)
       IN  IF ~Lookup(fs, a.name) THEN [flags |-> fs.flags, exit |-> TRUE]
           ELSE LET r == FlagValueSet(fs.flags[a.name], a.value)
                IN  IF ~r.ok THEN [flags |-> fs.flags, exit |-> TRUE]
                    ELSE ParseArgs(
                           [fs EXCEPT !.flags[a.name].value = r.value,
                                      !.flags[a.name].changed = TRUE],
                           Tail(arguments))

(***************************************************************************)
(* The registration pass.                                                  *)
(***************************************************************************)
\* the prefix handed to a nested structure (registration pass)
DefinePrefix(prefix, fieldPrefix) ==
  IF fieldPrefix # ""
  THEN IF prefix # "" THEN prefix \o "_" \o fieldPrefix ELSE fieldPrefix
  ELSE prefix

\* the flag name of a named leaf (registration pass)
DefineFlagName(prefix, name) ==
  IF prefix # "" THEN prefix \o "_" \o name ELSE name

\* the switch on the type tag: the flag declared for one named leaf
DefineLeaf(fs, flagName, tags) ==
  CASE tags.type = "string" ->
         AddFlag(fs, flagName, NewFlag("string", tags.default))
    [] tags.type = "[]string" ->
         AddFlag(fs, flagName,
                 NewFlag("stringSlice", SliceString(Split(tags.default, ","))))
    [] tags.type = "int" ->
         IF Atoi(tags.default).ok
         THEN AddFlag(fs, flagName, NewFlag("int64", Itoa(Atoi(tags.default).val)))
         ELSE fs
    [] tags.type = "bool" ->
         AddFlag(fs, flagName, NewFlag("bool", FormatBool(tags.default = "true")))
    [] tags.type = "float32" ->
         IF ParseFloat(tags.default, 32).ok
         THEN AddFlag(fs, flagName,
                      NewFlag("float32",
                              FormatFloat(Float32Of(ParseFloat(tags.default, 32).val))))
         ELSE fs
    [] tags.type = "float64" ->
         IF ParseFloat(tags.default, 64).ok
         THEN AddFlag(fs, flagName,
                      NewFlag("float64", FormatFloat(ParseFloat(tags.default, 64).val)))
         ELSE fs
    [] tags.type = "duration" ->
         IF ParseDuration(tags.default).ok
         THEN AddFlag(fs, flagName,
                      NewFlag("duration",
                              FormatDuration(ParseDuration(tags.default).val)))
         ELSE fs
    [] OTHER -> fs

RECURSIVE DefineFrom(_, _, _, _)
\* the loop of defineFlagsFromStructWithPrefix from field i on; a panic
\* ends the walk
DefineFrom(t, i, fs, prefix) ==
  IF i > Len(Fields(t)) \/ fs.panic # "" THEN fs
  ELSE LET field == Fields(t)[i]
       IN  IF field.kind = "struct"
           THEN DefineFrom(t, i + 1,
                           DefineFrom(field.styp, 1, fs,
                                      DefinePrefix(prefix, field.tags.prefix)),
                           prefix)
           ELSE IF field.tags.name = ""
           THEN DefineFrom(t, i + 1, fs, prefix)
           ELSE DefineFrom(t, i + 1,
                           DefineLeaf(fs, DefineFlagName(prefix, field.tags.name),
                                      field.tags),
                           prefix)

defineFlagsFromStructWithPrefix(t, fs, prefix) == DefineFrom(t, 1, fs, prefix)

defineFlagsFromStruct(t, fs) == defineFlagsFromStructWithPrefix(t, fs, "")

(***************************************************************************)
(* The state: the process (environment, command line, files, the           *)
(* process-wide flag set), the structure instances the callers allocated   *)
(* and the frame of the NewConfig call in progress.                        *)
(***************************************************************************)
VARIABLES
  env,          \* the process environment: variable name -> value
  args,         \* os.Args[1:], a sequence of [name, value] for --name=value
  files,        \* path -> [ok, data]: the configuration files that exist
  CommandLine,  \* pflag.CommandLine: name -> flag
  insts,        \* the instances, in allocation order; the index is the identity
  call,         \* the frame of the NewConfig or NewConfigWithFlagSet call in progress
  proc          \* "running", or how the process ended

vars == <<env, args, files, CommandLine, insts, call, proc>>

(***************************************************************************)
(* viper.  A resolver is [valid, id, pflags, config]: pflags gives, for     *)
(* each flag BindPFlags bound, its key (the flags themselves stay in the   *)
(* flag set and are read when a key is looked up, as is the environment),  *)
(* config holds the keys read from the configuration file.                 *)
(***************************************************************************)
Nil == [t |-> "nil", v |-> ""]
Str(s) == [t |-> "s", v |-> s]
Int64(n) == [t |-> "i", v |-> n]
Bool(b) == [t |-> "b", v |-> b]
Float(x) == [t |-> "f", v |-> x]
List(xs) == [t |-> "l", v |-> xs]

NilViper == [valid |-> FALSE, id |-> 0, pflags |-> <<>>, config |-> <<>>]

\* the value viper makes of a bound flag, by the flag's value type
FlagCast(flag) ==
  CASE flag.vtype = "int64" -> Int64(Atoi(flag.value).val)
    [] flag.vtype = "bool" -> Bool(ParseBool(flag.value).val)
    [] flag.vtype = "stringSlice" ->
         List(Split(SubSeq(flag.value, 2, Len(flag.value) - 1), ","))
    [] OTHER -> Str(flag.value)

\* Viper.getEnv: an empty variable counts as unset
GetEnv(name) == IF name \in DOMAIN env /\ env[name] # "" THEN Str(env[name]) ELSE Nil

\* Viper.BindPFlags(flags): the key each flag of the set is bound under
BindPFlags(cl) == [n \in DOMAIN cl |-> ToLower(n)]

\* Viper.find on the flag set cl: a changed flag, then the environment
\* (AutomaticEnv), then the configuration file, then, when flagDefault, the
\* default of a bound flag
Find(cl, v, key, flagDefault) ==
  LET lcaseKey == ToLower(key)
      names == { n \in DOMAIN v.pflags : v.pflags[n] = lcaseKey /\ n \in DOMAIN cl }
      bound == names # {}
      flag == cl[CHOOSE n \in names : TRUE]
  IN  IF bound /\ flag.changed THEN FlagCast(flag)
      ELSE IF GetEnv(ToUpper(lcaseKey)).t # "nil" THEN GetEnv(ToUpper(lcaseKey))
      ELSE IF lcaseKey \in DOMAIN v.config THEN v.config[lcaseKey]
      ELSE IF flagDefault /\ bound THEN FlagCast(flag)
      ELSE Nil

\* cast.ToString
CastToString(x) ==
  CASE x.t = "s" -> x.v
    [] x.t = "i" -> Itoa(x.v)
    [] x.t = "b" -> FormatBool(x.v)
    [] x.t = "f" -> FormatFloat(x.v)
    [] OTHER -> ""

\* cast.ToBool
CastToBool(x) ==
  CASE x.t = "b" -> x.v
    [] x.t = "i" -> x.v # 0
    [] x.t = "s" -> ParseBool(x.v).val
    [] x.t = "f" -> x.v # FloatZero
    [] OTHER -> FALSE

\* cast.ToInt64
CastToInt64(x) ==
  CASE x.t = "i" -> x.v
    [] x.t = "s" -> Atoi(x.v).val
    [] x.t = "b" -> IF x.v THEN 1 ELSE 0
    [] x.t = "f" -> IF x.v.neg THEN 0 - x.v.ip ELSE x.v.ip
    [] OTHER -> 0

\* cast.ToFloat64
CastToFloat64(x) ==
  CASE x.t = "f" -> x.v
    [] x.t = "i" -> [neg |-> x.v < 0, ip |-> IF x.v < 0 THEN 0 - x.v ELSE x.v, frac |-> ""]
    [] x.t = "s" -> ParseFloat(x.v, 64).val
    [] x.t = "b" -> [neg |-> FALSE, ip |-> IF x.v THEN 1 ELSE 0, frac |-> ""]
    [] OTHER -> FloatZero

GetString(cl, v, key) == CastToString(Find(cl, v, key, TRUE))
GetBool(cl, v, key) == CastToBool(Find(cl, v, key, TRUE))
GetInt64(cl, v, key) == CastToInt64(Find(cl, v, key, TRUE))
GetFloat64(cl, v, key) == CastToFloat64(Find(cl, v, key, TRUE))
IsSet(cl, v, key) == Find(cl, v, key, FALSE).t # "nil"

(***************************************************************************)
(* The assignment pass.  It threads st = [fields, log]: the values of the  *)
(* instance's leaves by path, and the record of what the pass did, in      *)
(* order: [ev |-> "set", path, key] for a leaf assigned under a key and    *)
(* [ev |-> "hook", path, recv] for Parse called at the structure level     *)
(* path on the instance recv; arg is the resolver the pass was handed, by  *)
(* the call that built it.                                                 *)
(***************************************************************************)
PathJoin(path, fname) ==
  IF path = "" THEN fname ELSE IF fname = "" THEN path ELSE path \o "." \o fname

SetEvent(path, key, v) ==
  [ev |-> "set", path |-> path, key |-> key, recv |-> "", arg |-> v.id]
HookEvent(path, recv, v) ==
  [ev |-> "hook", path |-> path, key |-> "", recv |-> recv, arg |-> v.id]

\* the greatest embedding depth at which a promoted method is looked for
MaxEmbedDepth == 3

RECURSIVE ParseAt(_, _)
\* the embedded instances, relative to a value of type t, that declare Parse
\* at embedding depth d
ParseAt(t, d) ==
  IF d = 0 THEN (IF t \in DeclaresParse THEN {""} ELSE {})
  ELSE UNION { { PathJoin(Fields(t)[i].fname, p) : p \in ParseAt(Fields(t)[i].styp, d - 1) } :
               i \in { j \in 1..Len(Fields(t)) :
                         Fields(t)[j].kind = "struct" /\ Fields(t)[j].anon } }

\* reflect: vp.MethodByName("Parse") on a pointer to a t.  The method set holds
\* the methods t declares and those promoted from embedded fields: the one at
\* the shallowest depth, if it is the only one there.
MethodByName(t) ==
  LET depths == { d \in 0..MaxEmbedDepth : ParseAt(t, d) # {} }
      d0 == CHOOSE d \in depths : \A e \in depths : d <= e
  IN  IF depths = {} \/ Cardinality(ParseAt(t, d0)) # 1
      THEN [valid |-> FALSE, recv |-> ""]
      ELSE [valid |-> TRUE, recv |-> CHOOSE p \in ParseAt(t, d0) : TRUE]

\* a composition that forgets the ambient prefix below a prefixed field
SetPrefixInnermost(prefix, fieldPrefix) ==
  IF fieldPrefix # "" THEN fieldPrefix ELSE prefix

\* the prefix handed to a nested structure (assignment pass)
SetPrefix(prefix, fieldPrefix) ==
  IF fieldPrefix # ""
  THEN IF prefix # "" THEN prefix \o "_" \o fieldPrefix ELSE fieldPrefix
  ELSE prefix

\* the key of the assignment pass before prefixes existed: the name tag
SetFlagNameBare(prefix, name) == name

\* the key a leaf is read under (assignment pass)
SetFlagName(prefix, name) ==
  IF prefix # "" /\ name # "" THEN prefix \o "_" \o name ELSE name

\* an assignment that stores a resolved text as it is, empty or not
SetLeafVerbatim(field, cl, v, flagName) ==
  CASE field.kind = "string" ->
         [set |-> TRUE, val |-> GetString(cl, v, flagName)]
    [] field.kind = "bool" ->
         [set |-> TRUE,
          val |-> IF IsSet(cl, v, flagName) THEN GetBool(cl, v, flagName)
                  ELSE field.tags.default = "true"]
    [] field.kind = "int" ->
         IF IsSet(cl, v, flagName) THEN [set |-> TRUE, val |-> GetInt64(cl, v, flagName)]
         ELSE [set |-> Atoi(field.tags.default).ok, val |-> Atoi(field.tags.default).val]
    [] field.kind = "float32" ->
         IF IsSet(cl, v, flagName)
         THEN [set |-> TRUE, val |-> Float32Of(GetFloat64(cl, v, flagName))]
         ELSE [set |-> ParseFloat(field.tags.default, 32).ok,
               val |-> Float32Of(ParseFloat(field.tags.default, 32).val)]
    [] field.kind = "float64" ->
         IF IsSet(cl, v, flagName) THEN [set |-> TRUE, val |-> GetFloat64(cl, v, flagName)]
         ELSE [set |-> ParseFloat(field.tags.default, 64).ok,
               val |-> ParseFloat(field.tags.default, 64).val]
    [] OTHER -> [set |-> FALSE, val |-> 0]

\* an assignment that parses a boolean default as strconv.ParseBool does
SetLeafParseBool(field, cl, v, flagName) ==
  CASE field.kind = "string" ->
         [set |-> TRUE,
          val |-> IF GetString(cl, v, flagName) = "" THEN field.tags.default
                  ELSE GetString(cl, v, flagName)]
    [] field.kind = "bool" ->
         [set |-> TRUE,
          val |-> IF IsSet(cl, v, flagName) THEN GetBool(cl, v, flagName)
                  ELSE ParseBool(field.tags.default).val]
    [] field.kind = "int" ->
         IF IsSet(cl, v, flagName) THEN [set |-> TRUE, val |-> GetInt64(cl, v, flagName)]
         ELSE [set |-> Atoi(field.tags.default).ok, val |-> Atoi(field.tags.default).val]
    [] field.kind = "float32" ->
         IF IsSet(cl, v, flagName)
         THEN [set |-> TRUE, val |-> Float32Of(GetFloat64(cl, v, flagName))]
         ELSE [set |-> ParseFloat(field.tags.default, 32).ok,
               val |-> Float32Of(ParseFloat(field.tags.default, 32).val)]
    [] field.kind = "float64" ->
         IF IsSet(cl, v, flagName) THEN [set |-> TRUE, val |-> GetFloat64(cl, v, flagName)]
         ELSE [set |-> ParseFloat(field.tags.default, 64).ok,
               val |-> ParseFloat(field.tags.default, 64).val]
    [] OTHER -> [set |-> FALSE, val |-> 0]

\* an assignment that takes an integer from the resolver whether set or not,
\* and so the default of the flag declaration
SetLeafFlagDefault(field, cl, v, flagName) ==
  CASE field.kind = "string" ->
         [set |-> TRUE,
          val |-> IF GetString(cl, v, flagName) = "" THEN field.tags.default
                  ELSE GetString(cl, v, flagName)]
    [] field.kind = "bool" ->
         [set |-> TRUE,
          val |-> IF IsSet(cl, v, flagName) THEN GetBool(cl, v, flagName)
                  ELSE field.tags.default = "true"]
    [] field.kind = "int" ->
         [set |-> TRUE, val |-> GetInt64(cl, v, flagName)]
    [] field.kind = "float32" ->
         IF IsSet(cl, v, flagName)
         THEN [set |-> TRUE, val |-> Float32Of(GetFloat64(cl, v, flagName))]
         ELSE [set |-> ParseFloat(field.tags.default, 32).ok,
               val |-> Float32Of(ParseFloat(field.tags.default, 32).val)]
    [] field.kind = "float64" ->
         IF IsSet(cl, v, flagName) THEN [set |-> TRUE, val |-> GetFloat64(cl, v, flagName)]
         ELSE [set |-> ParseFloat(field.tags.default, 64).ok,
               val |-> ParseFloat(field.tags.default, 64).val]
    [] OTHER -> [set |-> FALSE, val |-> 0]

\* the cases of the switch on the field's kind: the value stored, or none
SetLeaf(field, cl, v, flagName) ==
  CASE field.kind = "string" ->
         [set |-> TRUE,
          val |-> IF GetString(cl, v, flagName) = "" THEN field.tags.default
                  ELSE GetString(cl, v, flagName)]
    [] field.kind = "bool" ->
         [set |-> TRUE,
          val |-> IF IsSet(cl, v, flagName) THEN GetBool(cl, v, flagName)
                  ELSE field.tags.default = "true"]
    [] field.kind = "int" ->
         IF IsSet(cl, v, flagName) THEN [set |-> TRUE, val |-> GetInt64(cl, v, flagName)]
         ELSE [set |-> Atoi(field.tags.default).ok, val |-> Atoi(field.tags.default).val]
    [] field.kind = "float32" ->
         IF IsSet(cl, v, flagName)
         THEN [set |-> TRUE, val |-> Float32Of(GetFloat64(cl, v, flagName))]
         ELSE [set |-> ParseFloat(field.tags.default, 32).ok,
               val |-> Float32Of(ParseFloat(field.tags.default, 32).val)]
    [] field.kind = "float64" ->
         IF IsSet(cl, v, flagName) THEN [set |-> TRUE, val |-> GetFloat64(cl, v, flagName)]
         ELSE [set |-> ParseFloat(field.tags.default, 64).ok,
               val |-> ParseFloat(field.tags.default, 64).val]
    [] OTHER -> [set |-> FALSE, val |-> 0]

RECURSIVE SetFromHookFirst(_, _, _, _, _, _, _)
\* a walk that calls the Parse method of a level before it visits the fields
SetFromHookFirst(t, i, st, cl, v, prefix, path) ==
  LET st0 == IF i = 1 /\ MethodByName(t).valid
             THEN [st EXCEPT !.log = Append(st.log,
                                            HookEvent(path, PathJoin(path, MethodByName(t).recv), v))]
             ELSE st
  IN  IF i > Len(Fields(t))
      THEN st0
      ELSE LET field == Fields(t)[i]
               p == PathJoin(path, field.fname)
               flagName == SetFlagName(prefix, field.tags.name)
               r == SetLeaf(field, cl, v, flagName)
           IN  IF field.kind = "struct"
               THEN SetFromHookFirst(t, i + 1,
                                     SetFromHookFirst(field.styp, 1, st0, cl, v,
                                                      SetPrefix(prefix, field.tags.prefix), p),
                                     cl, v, prefix, path)
               ELSE IF r.set
               THEN SetFromHookFirst(t, i + 1,
                                     [fields |-> [st0.fields EXCEPT ![p] = r.val],
                                      log |-> Append(st0.log, SetEvent(p, flagName, v))],
                                     cl, v, prefix, path)
               ELSE SetFromHookFirst(t, i + 1, st0, cl, v, prefix, path)

RECURSIVE SetFrom(_, _, _, _, _, _, _)
\* the loop of setPropertiesFromFlagsWithPrefix from field i on, followed by
\* the call of the Parse method of the level
SetFrom(t, i, st, cl, v, prefix, path) ==
  IF i > Len(Fields(t))
  THEN IF MethodByName(t).valid
       THEN [st EXCEPT !.log = Append(st.log,
                                      HookEvent(path, PathJoin(path, MethodByName(t).recv), v))]
       ELSE st
  ELSE LET field == Fields(t)[i]
           p == PathJoin(path, field.fname)
           flagName == SetFlagName(prefix, field.tags.name)
           r == SetLeaf(field, cl, v, flagName)
       IN  IF field.kind = "struct"
           THEN SetFrom(t, i + 1,
                        SetFrom(field.styp, 1, st, cl, v,
                                SetPrefix(prefix, field.tags.prefix), p),
                        cl, v, prefix, path)
           ELSE IF r.set
           THEN SetFrom(t, i + 1,
                        [fields |-> [st.fields EXCEPT ![p] = r.val],
                         log |-> Append(st.log, SetEvent(p, flagName, v))],
                        cl, v, prefix, path)
           ELSE SetFrom(t, i + 1, st, cl, v, prefix, path)

setPropertiesFromFlagsWithPrefix(t, st, cl, v, prefix) ==
  SetFrom(t, 1, st, cl, v, prefix, "")

setPropertiesFromFlags(t, st, cl, v) ==
  setPropertiesFromFlagsWithPrefix(t, st, cl, v, "")

(***************************************************************************)
(* The worlds a process can start in: environment, command line, files.    *)
(***************************************************************************)
Arg(name, value) == [name |-> name, value |-> value]

\* every structure of the model finds some of its names here
FullEnv ==
  [ TEST_STRING |-> "env_string", TEST_INT |-> "100", TEST_BOOL_TRUE |-> "false",
    TEST_BOOL_FALSE |-> "true", TEST_FLOAT32 |-> "1.5", TEST_FLOAT64 |-> "9.99",
    PRIMARY_DBHOST |-> "10.0.0.1", REPLICA_DBPORT |-> "5544",
    VALUE |-> "regular_env", PREFIXED_VALUE |-> "prefixed_env",
    value |-> "lower_case_env",
    OUTER_FIELD |-> "outer_from_env", OUTER_INNER_FIELD |-> "inner_from_env",
    DEEP_FIELD |-> "deep_from_env", DEEP_INNER_LAST_FIELD |-> "last_from_env",
    LAST_FIELD |-> "bare_last_env", FIELD |-> "bare_field_env",
    PORT |-> "8443", TIMEOUT |-> "30s",
    LOOSE_TAGS |-> "x,y", LOOSE_BAD_INT |-> "5", LOOSE_NO_TYPE |-> "untyped_env",
    NONAME |-> "noname_env", LOOSE_NONAME |-> "noname_env", LOOSE_ |-> "noname_env",
    WITHOUTTAG |-> "notag_env", NONAMEFLAG |-> "false",
    MERGE_TEST_FIELD |-> "", HOOK_VAL |-> "hook_env", NAMED_LEAF_VAL |-> "8",
    CONFIG |-> "" ]

\* some names only, next to a file and to command-line flags
PartialEnv ==
  [ TEST_STRING |-> "env_string", TEST_INT |-> "100", TEST_BOOL_TRUE |-> "false",
    TEST_FLOAT32 |-> "", CONFIG |-> "app.yaml" ]

AppYaml ==
  [ test_string |-> Str("file_string"), test_int |-> Int64(55),
    test_bool_true |-> Bool(TRUE), test_bool_false |-> Bool(TRUE),
    test_float32 |-> Float([neg |-> FALSE, ip |-> 0, frac |-> "25"]),
    replica_dbhost |-> Str("file-host"), replica_dbport |-> Int64(6000),
    primary_dbdebug |-> Bool(TRUE), prefixed_value |-> Str(""),
    deep_count |-> Int64(4), timeout |-> Str("45s"),
    loose_tags |-> List(<<"f", "g">>), host |-> Str("0.0.0.0") ]

FileSystem ==
  [ k \in {"app.yaml", "bad.yaml"} |->
      IF k = "app.yaml" THEN [ok |-> TRUE, data |-> AppYaml]
      ELSE [ok |-> FALSE, data |-> <<>>] ]

World(e, a) == [env |-> e, args |-> a, files |-> FileSystem]

Worlds ==
  { World(<<>>, <<>>),
    World(FullEnv, <<>>),
    World(PartialEnv, <<>>),
    World(PartialEnv, << Arg("test_int", "007"), Arg("test_string", "cli_string"),
                         Arg("test_bool_false", "false") >>),
    World(PartialEnv, << Arg("test_string", "") >>),
    World(<<>>, << Arg("config", "app.yaml") >>),
    World([CONFIG |-> "missing.yaml"], <<>>),
    World(<<>>, << Arg("config", "bad.yaml") >>) }

(***************************************************************************)
(* Instances.  An instance is [t, fields, log, viper, merged, returned]:   *)
(* its structure, the values of its leaves, the record of the assignment   *)
(* pass, the resolver generate stored in its Config, whether its call      *)
(* merged its flags, and the instance NewConfig returned for it (0 before  *)
(* the return).                                                            *)
(***************************************************************************)
\* the zero value of a leaf, by reflect.Kind
ZeroValue(kind) ==
  CASE kind = "string" -> ""
    [] kind = "bool" -> FALSE
    [] kind \in {"float32", "float64"} -> FloatZero
    [] kind = "slice" -> <<>>
    [] OTHER -> 0

RECURSIVE Leaves(_, _)
\* the leaves of a value of type t at path: [path, field], the resolver
\* handle of Config apart
Leaves(t, path) ==
  UNION { LET field == Fields(t)[i]
          IN  IF field.kind = "struct"
              THEN Leaves(field.styp, PathJoin(path, field.fname))
              ELSE IF field.kind = "ptr" THEN {}
              ELSE { [path |-> PathJoin(path, field.fname), field |-> field] } :
          i \in 1..Len(Fields(t)) }

LeafAt(t, p) == (CHOOSE l \in Leaves(t, "") : l.path = p).field

\* &T{}: a zero-valued instance of the structure t
NewInstance(t) ==
  [ t |-> t,
    fields |-> [p \in { l.path : l \in Leaves(t, "") } |-> ZeroValue(LeafAt(t, p).kind)],
    log |-> <<>>,
    viper |-> NilViper,
    merged |-> FALSE,
    returned |-> 0 ]

Idle == [pc |-> "idle", op |-> "", c |-> 0, merge |-> <<>>, fs |-> NewFlagSet]

\* what ReadInConfig's error makes of a file that does not exist: the error is
\* viper's, and which of the two branches it takes depends on viper's version
MissingFileMessages ==
  { "Could not find configuration file", "Could not parse configuration file" }

\* a CreateViper that calls ReadInConfig whatever the config key resolves to
CreateViperReadingAlways(cl, id, missing) ==
  LET parsed == ParseArgs([flags |-> cl, panic |-> ""], args)
      v0 == [valid |-> TRUE, id |-> id, pflags |-> BindPFlags(parsed.flags),
             config |-> <<>>]
      path == GetString(parsed.flags, v0, "config")
  IN  IF parsed.exit
      THEN [exit |-> TRUE, panic |-> "", flags |-> parsed.flags, viper |-> NilViper]
      ELSE IF path \notin DOMAIN files
      THEN [exit |-> FALSE, panic |-> missing, flags |-> parsed.flags,
            viper |-> NilViper]
      ELSE IF ~files[path].ok
      THEN [exit |-> FALSE, panic |-> "Could not parse configuration file",
            flags |-> parsed.flags, viper |-> NilViper]
      ELSE [exit |-> FALSE, panic |-> "", flags |-> parsed.flags,
            viper |-> [v0 EXCEPT !.config = files[path].data]]

\* CreateViper on the flag set cl: [exit, panic, flags, viper]
CreateViper(cl, id, missing) ==
  LET parsed == ParseArgs([flags |-> cl, panic |-> ""], args)
      v0 == [valid |-> TRUE, id |-> id, pflags |-> BindPFlags(parsed.flags),
             config |-> <<>>]
      path == GetString(parsed.flags, v0, "config")
  IN  IF parsed.exit
      THEN [exit |-> TRUE, panic |-> "", flags |-> parsed.flags, viper |-> NilViper]
      ELSE IF path = ""
      THEN [exit |-> FALSE, panic |-> "", flags |-> parsed.flags, viper |-> v0]
      ELSE IF path \notin DOMAIN files
      THEN [exit |-> FALSE, panic |-> missing, flags |-> parsed.flags,
            viper |-> NilViper]
      ELSE IF ~files[path].ok
      THEN [exit |-> FALSE, panic |-> "Could not parse configuration file",
            flags |-> parsed.flags, viper |-> NilViper]
      ELSE [exit |-> FALSE, panic |-> "", flags |-> parsed.flags,
            viper |-> [v0 EXCEPT !.config = files[path].data]]

\* the generate of the first version: pflag.String("config", ...) on the
\* process-wide set, whether or not the flag is there
generateDeclaring(cl, id, missing) ==
  LET global == AddFlag([flags |-> cl, panic |-> ""], "config", NewFlag("string", ""))
  IN  IF global.panic # ""
      THEN [exit |-> FALSE, panic |-> global.panic, flags |-> cl, viper |-> NilViper]
      ELSE CreateViper(global.flags, id, missing)

\* Config.generate on the flag set cl: declares the config flag when the
\* process-wide set lacks it, then builds the resolver
generate(cl, id, missing) ==
  LET fs == AddFlag(NewFlagSet, "config", NewFlag("string", ""))
      global == [flags |-> cl, panic |-> ""]
      merged == IF ~Lookup(global, "config") THEN AddFlagSet(global, fs) ELSE global
  IN  CreateViper(merged.flags, id, missing)

(***************************************************************************)
(* Config.HasConfig.  A checkType is [type, ptr]: the type of the value    *)
(* passed, or the type pointed to when a pointer is passed.                *)
(***************************************************************************)
\* reflect.TypeOf of a value of type T, or of a pointer to it
ValueOf(T) == [type |-> T, ptr |-> FALSE]
PointerTo(T) == [type |-> T, ptr |-> TRUE]

\* field.Type: the type of a field
FieldType(field) ==
  CASE field.kind = "struct" -> ValueOf(field.styp)
    [] field.kind = "ptr" -> PointerTo("viper.Viper")
    [] OTHER -> ValueOf(field.kind)

\* c.HasConfig(checkType): the receiver is the embedded *Config, so the
\* fields searched are those of Config, whatever structure embeds it
HasConfig(checkType) ==
  LET targetType == IF checkType.ptr THEN ValueOf(checkType.type) ELSE checkType
      configType == "Config"
  IN  \E i \in 1..Len(Fields(configType)) :
        FieldType(Fields(configType)[i]) = targetType

(***************************************************************************)
(* The steps of NewConfig.                                                 *)
(***************************************************************************)
Init ==
  /\ \E w \in Worlds : env = w.env /\ args = w.args /\ files = w.files
  /\ CommandLine = <<>>
  /\ insts = <<>>
  /\ call = Idle
  /\ proc = "running"

\* a NewConfig that starts with the assignment pass
NewConfigAssigningFirst(t, merge) ==
  /\ proc = "running"
  /\ call.pc = "idle"
  /\ Len(insts) < MaxCalls
  /\ insts' = Append(insts, NewInstance(t))
  /\ call' = [pc |-> "assign", op |-> "NewConfig", c |-> Len(insts) + 1,
              merge |-> merge, fs |-> NewFlagSet]
  /\ UNCHANGED <<env, args, files, CommandLine, proc>>

\* the caller allocates &t{} and calls NewConfig(c, merge...), which creates
\* its flag set
NewConfig(t, merge) ==
  /\ proc = "running"
  /\ call.pc = "idle"
  /\ Len(insts) < MaxCalls
  /\ insts' = Append(insts, NewInstance(t))
  /\ call' = [pc |-> "define", op |-> "NewConfig", c |-> Len(insts) + 1,
              merge |-> merge, fs |-> NewFlagSet]
  /\ UNCHANGED <<env, args, files, CommandLine, proc>>

\* defineFlagsFromStruct(reflect.TypeOf(c).Elem(), fs)
Define ==
  /\ proc = "running"
  /\ call.pc = "define"
  /\ call.op = "NewConfig"
  /\ \E fs \in { defineFlagsFromStruct(insts[call.c].t, call.fs) } :
         IF fs.panic # ""
         THEN /\ proc' = "panic: " \o fs.panic
              /\ call' = call
         ELSE /\ proc' = proc
              /\ call' = [call EXCEPT !.pc = "merge", !.fs = fs]
  /\ UNCHANGED <<env, args, files, CommandLine, insts>>

\* a merge that does not look at the merge argument
MergeAlways ==
  /\ proc = "running"
  /\ call.pc = "merge"
  /\ \E global \in { AddFlagSet([flags |-> CommandLine, panic |-> ""], call.fs) } :
       IF global.panic # ""
       THEN /\ proc' = "panic: " \o global.panic
            /\ UNCHANGED <<CommandLine, call, insts>>
       ELSE /\ CommandLine' = global.flags
            /\ call' = [call EXCEPT !.pc = "generate", !.merge = <<>>]
            /\ insts' = [insts EXCEPT ![call.c].merged = (call.merge # <<FALSE>>)]
            /\ proc' = proc
  /\ UNCHANGED <<env, args, files>>

\* shouldMerge, and pflag.CommandLine.AddFlagSet(fs) when it holds
Merge ==
  /\ proc = "running"
  /\ call.pc = "merge"
  /\ LET shouldMerge == IF Len(call.merge) > 0 THEN call.merge[1] ELSE TRUE
     IN  IF ~shouldMerge
         THEN /\ call' = [call EXCEPT !.pc = "generate", !.merge = <<>>]
              /\ UNCHANGED <<CommandLine, proc, insts>>
         ELSE \E global \in { AddFlagSet([flags |-> CommandLine, panic |-> ""], call.fs) } :
                IF global.panic # ""
                THEN /\ proc' = "panic: " \o global.panic
                     /\ UNCHANGED <<CommandLine, call, insts>>
                ELSE /\ CommandLine' = global.flags
                     /\ call' = [call EXCEPT !.pc = "generate", !.merge = <<>>]
                     /\ insts' = [insts EXCEPT ![call.c].merged = TRUE]
                     /\ proc' = proc
  /\ UNCHANGED <<env, args, files>>

\* c.generate()
Generate ==
  /\ proc = "running"
  /\ call.pc = "generate"
  /\ \E missing \in MissingFileMessages :
       \E r \in { generate(CommandLine, call.c, missing) } :
           /\ CommandLine' = r.flags
           /\ IF r.exit
              THEN proc' = "exit" /\ UNCHANGED <<insts, call>>
              ELSE IF r.panic # ""
              THEN proc' = "panic: " \o r.panic /\ UNCHANGED <<insts, call>>
              ELSE /\ insts' = [insts EXCEPT ![call.c].viper = r.viper]
                   /\ call' = [call EXCEPT !.pc = "assign"]
                   /\ proc' = proc
  /\ UNCHANGED <<env, args, files>>

\* an assignment pass that clears every other instance before it assigns
AssignClearing ==
  /\ proc = "running"
  /\ call.pc = "assign"
  /\ \E st \in { setPropertiesFromFlags(insts[call.c].t,
                                          [fields |-> insts[call.c].fields,
                                           log |-> insts[call.c].log],
                                          CommandLine, insts[call.c].viper) } :
       insts' = [k \in DOMAIN insts |->
                   IF k = call.c
                   THEN [insts[k] EXCEPT !.fields = st.fields, !.log = st.log]
                   ELSE [insts[k] EXCEPT !.fields = NewInstance(insts[k].t).fields]]
  /\ call' = [call EXCEPT !.pc = "return"]
  /\ UNCHANGED <<env, args, files, CommandLine, proc>>

\* setPropertiesFromFlags(reflect.ValueOf(c), c.getParser())
Assign ==
  /\ proc = "running"
  /\ call.pc = "assign"
  /\ \E st \in { setPropertiesFromFlags(insts[call.c].t,
                                          [fields |-> insts[call.c].fields,
                                           log |-> insts[call.c].log],
                                          CommandLine, insts[call.c].viper) } :
       insts' = [insts EXCEPT ![call.c].fields = st.fields, ![call.c].log = st.log]
  /\ call' = [call EXCEPT !.pc = "return"]
  /\ UNCHANGED <<env, args, files, CommandLine, proc>>

\* a return of a copy of c: an object other than the one given
ReturnCopy ==
  /\ proc = "running"
  /\ call.pc = "return"
  /\ insts' = [insts EXCEPT ![call.c].returned = call.c + MaxCalls]
  /\ call' = Idle
  /\ UNCHANGED <<env, args, files, CommandLine, proc>>

\* return c
Return ==
  /\ proc = "running"
  /\ call.pc = "return"
  /\ insts' = [insts EXCEPT ![call.c].returned = call.c]
  /\ call' = Idle
  /\ UNCHANGED <<env, args, files, CommandLine, proc>>

Next ==
  \/ \E t \in Structures, merge \in {<<>>, <<TRUE>>, <<FALSE>>} : NewConfig(t, merge)
  \/ Define
  \/ Merge
  \/ Generate
  \/ Assign
  \/ Return

Spec == Init /\ [][Next]_vars

(***************************************************************************)
(* NewConfigWithFlagSet.  The caller supplies the flag set: a new one, or  *)
(* one on which the caller has declared and set flags already.             *)
(***************************************************************************)
\* a flag the caller declared and set on its flag set
SetFlag(vtype, value) ==
  [vtype |-> vtype, def |-> "", value |-> value, changed |-> TRUE]

\* a caller's flag set holding values under qualified names of the
\* structures: of a leaf the registration pass declares (test_string) and of
\* leaves it skips (loose_bad_int, loose_no_type)
PresetFlagSet ==
  [flags |-> [test_string |-> SetFlag("string", "from_fs"),
              loose_bad_int |-> SetFlag("int64", "7"),
              loose_no_type |-> SetFlag("string", "typed_by_caller")],
   panic |-> ""]

\* a caller's flag set holding flags only for the leaves the registration
\* pass skips
SparseFlagSet ==
  [flags |-> [loose_bad_int |-> SetFlag("int64", "7"),
              loose_no_type |-> SetFlag("string", "typed_by_caller")],
   panic |-> ""]

CustomFlagSets == { NewFlagSet, PresetFlagSet, SparseFlagSet }

\* the caller allocates &t{} and calls NewConfigWithFlagSet(c, fs)
NewConfigWithFlagSet(t, fs) ==
  /\ proc = "running"
  /\ call.pc = "idle"
  /\ Len(insts) < MaxCalls
  /\ insts' = Append(insts, NewInstance(t))
  /\ call' = [pc |-> "define", op |-> "NewConfigWithFlagSet", c |-> Len(insts) + 1,
              merge |-> <<>>, fs |-> fs]
  /\ UNCHANGED <<env, args, files, CommandLine, proc>>

\* defineFlagsFromStruct(reflect.TypeOf(c).Elem(), fs) on the caller's set;
\* no merge follows
DefineWithFlagSet ==
  /\ proc = "running"
  /\ call.pc = "define"
  /\ call.op = "NewConfigWithFlagSet"
  /\ \E fs \in { defineFlagsFromStruct(insts[call.c].t, call.fs) } :
         IF fs.panic # ""
         THEN /\ proc' = "panic: " \o fs.panic
              /\ call' = call
         ELSE /\ proc' = proc
              /\ call' = [call EXCEPT !.pc = "generate", !.fs = fs]
  /\ UNCHANGED <<env, args, files, CommandLine, insts>>

NextWithFlagSet ==
  \/ \E t \in Structures, merge \in {<<>>, <<TRUE>>, <<FALSE>>} : NewConfig(t, merge)
  \/ \E t \in Structures, fs \in CustomFlagSets : NewConfigWithFlagSet(t, fs)
  \/ Define
  \/ DefineWithFlagSet
  \/ Merge
  \/ Generate
  \/ Assign
  \/ Return

SpecWithFlagSet == Init /\ [][NextWithFlagSet]_vars

\* sequences of calls of both kinds on a few structures: two that declare
\* one name, one with values in the environment, one with hooks
CallStructures == {"SimpleCfg", "OtherCfg", "LooseConfig", "HookConfig"}

NextAnyCalls ==
  \/ \E t \in CallStructures, merge \in {<<>>, <<TRUE>>, <<FALSE>>} : NewConfig(t, merge)
  \/ \E t \in CallStructures, fs \in CustomFlagSets : NewConfigWithFlagSet(t, fs)
  \/ Define
  \/ DefineWithFlagSet
  \/ Merge
  \/ Generate
  \/ Assign
  \/ Return

SpecAnyCalls == Init /\ [][NextAnyCalls]_vars

(***************************************************************************)
(* Vocabulary of the properties, stated on the structure definitions and   *)
(* on the process's inputs.                                                *)
(***************************************************************************)
\* instance i has been composed and handed back
Done(i) == i \in 1..Len(insts) /\ insts[i].returned # 0

Composed == { i \in 1..Len(insts) : insts[i].returned # 0 }

\* the instance NewConfig has just returned; an instance does not change
\* once returned, so what holds of it then holds of it ever after
Fresh == { i \in Composed : i = Len(insts) /\ call.pc = "idle" }

RECURSIVE PrefixChain(_, _)
\* the prefix tags of the sub-structures on the way from a t down the field
\* names segs, root first
PrefixChain(t, segs) ==
  IF Len(segs) <= 1 THEN <<>>
  ELSE LET f == CHOOSE g \in { Fields(t)[k] : k \in 1..Len(Fields(t)) } : g.fname = segs[1]
       IN  <<f.tags.prefix>> \o PrefixChain(f.styp, Tail(segs))

NonEmpty(str) == str # ""

\* the qualified name of the leaf of t at path p
ComposeName(t, p) ==
  Join(SelectSeq(PrefixChain(t, Split(p, ".")), NonEmpty) \o <<LeafAt(t, p).tags.name>>, "_")

\* the qualified names of the leaves of every structure, by path
QualifiedNames ==
  [t \in Structures |-> [p \in { l.path : l \in Leaves(t, "") } |-> ComposeName(t, p)]]

QualifiedName(t, p) == QualifiedNames[t][p]

NamedLeavesOf == [t \in Structures |-> { l \in Leaves(t, "") : l.field.tags.name # "" }]

NamedLeaves(t) == NamedLeavesOf[t]

SupportedTypes == {"string", "[]string", "int", "bool", "float32", "float64", "duration"}

\* the Go kind of a field of a declared type
DeclaredKind(type) ==
  CASE type = "[]string" -> "slice"
    [] type = "duration" -> "int64"
    [] OTHER -> type

\* a named leaf of a supported declared type, declared on a field of that type
TypedLeavesOf ==
  [t \in Structures |->
     { l \in NamedLeaves(t) : /\ l.field.tags.type \in SupportedTypes
                              /\ l.field.kind = DeclaredKind(l.field.tags.type) }]

TypedLeaves(t) == TypedLeavesOf[t]

\* the text s converted to the declared type
FromText(type, s) ==
  CASE type = "string" -> s
    [] type = "[]string" -> Split(s, ",")
    [] type = "int" -> Atoi(s).val
    [] type = "bool" -> (s = "true")
    [] type = "float32" -> Float32Of(ParseFloat(s, 32).val)
    [] type = "float64" -> ParseFloat(s, 64).val
    [] type = "duration" -> ParseDuration(s).val

\* s is a literal of the declared type
ValidText(type, s) ==
  CASE type \in {"string", "[]string"} -> TRUE
    [] type = "int" -> Atoi(s).ok
    [] type = "bool" -> s \in {"true", "false"}
    [] type = "float32" -> ParseFloat(s, 32).ok
    [] type = "float64" -> ParseFloat(s, 64).ok
    [] type = "duration" -> ParseDuration(s).ok

\* the sources of values: the command line, the environment, the file named
\* by --config or CONFIG
FlagGiven(q) == \E k \in 1..Len(args) : args[k].name = q
FlagText(q) == args[CHOOSE k \in 1..Len(args) : args[k].name = q].value
EnvGiven(q) == ToUpper(q) \in DOMAIN env /\ env[ToUpper(q)] # ""
EnvText(q) == env[ToUpper(q)]
ConfigPath ==
  IF FlagGiven("config") THEN FlagText("config")
  ELSE IF "CONFIG" \in DOMAIN env THEN env["CONFIG"] ELSE ""
FileData ==
  IF ConfigPath \in DOMAIN files /\ files[ConfigPath].ok THEN files[ConfigPath].data
  ELSE <<>>
FileGiven(q) == q \in DOMAIN FileData
Supplied(q) == FlagGiven(q) \/ EnvGiven(q) \/ FileGiven(q)

\* a value read from the file, converted to the declared type
FromFile(type, x) ==
  CASE x.t = "s" -> FromText(type, x.v)
    [] x.t = "f" /\ type = "float32" -> Float32Of(x.v)
    [] OTHER -> x.v

(***************************************************************************)
(* C1: a leaf of a supported declared type with a valid default, for whose *)
(* qualified name no flag, environment variable or file value exists,      *)
(* holds its parsed default after NewConfig.                               *)
(***************************************************************************)
C1_DefaultPopulated ==
  \A i \in Composed :
    \A l \in TypedLeaves(insts[i].t) :
      ( /\ ValidText(l.field.tags.type, l.field.tags.default)
        /\ ~Supplied(QualifiedName(insts[i].t, l.path)) )
      => insts[i].fields[l.path] = FromText(l.field.tags.type, l.field.tags.default)

(***************************************************************************)
(* C2: a leaf of a supported declared type whose qualified name is set     *)
(* only by the environment variable of the upper-cased name, to V, holds   *)
(* V converted to its type after NewConfig.                                *)
(***************************************************************************)
C2_EnvPopulated ==
  \A i \in Composed :
    \A l \in TypedLeaves(insts[i].t) :
      LET q == QualifiedName(insts[i].t, l.path)
      IN  ( /\ EnvGiven(q) /\ ~FlagGiven(q) /\ ~FileGiven(q)
            /\ ValidText(l.field.tags.type, EnvText(q)) )
          => insts[i].fields[l.path] = FromText(l.field.tags.type, EnvText(q))

(***************************************************************************)
(* C3: the value of a named leaf after NewConfig is that of the            *)
(* highest-precedence source supplying its qualified name: flag, then      *)
(* environment variable, then file, then the declared default.             *)
(***************************************************************************)
C3_Precedence ==
  \A i \in Composed :
    \A l \in TypedLeaves(insts[i].t) :
      LET q == QualifiedName(insts[i].t, l.path)
          type == l.field.tags.type
      IN  insts[i].fields[l.path] =
            IF FlagGiven(q) THEN FromText(type, FlagText(q))
            ELSE IF EnvGiven(q) THEN FromText(type, EnvText(q))
            ELSE IF FileGiven(q) THEN FromFile(type, FileData[q])
            ELSE FromText(type, l.field.tags.default)

(***************************************************************************)
(* C4: at any nesting depth the qualified name of a named leaf is the      *)
(* underscore-join, root first, of the non-empty prefix tags of its        *)
(* ancestors and of its declared name; both passes use it: the flags the   *)
(* registration pass declares and the keys the assignment pass reads.      *)
(***************************************************************************)
C4_QualifiedNames ==
  /\ \A i \in Fresh :
       \A k \in 1..Len(insts[i].log) :
         LET e == insts[i].log[k]
         IN  (e.ev = "set" /\ e.path \in { l.path : l \in NamedLeaves(insts[i].t) })
             => e.key = QualifiedName(insts[i].t, e.path)
  /\ call.pc \in {"merge", "generate", "assign", "return"} =>
       LET t == insts[call.c].t
       IN  /\ DOMAIN call.fs.flags \subseteq
                { QualifiedName(t, l.path) : l \in NamedLeaves(t) }
           /\ \A l \in NamedLeaves(t) :
                l.field.tags.type = "string"
                => QualifiedName(t, l.path) \in DOMAIN call.fs.flags

\* a four-level structure with an ancestor without prefix has been composed
\* and its deepest leaf was read under the composed name
C4_Witness ==
  \E i \in Composed :
    /\ insts[i].t = "DeepConfig"
    /\ \E k \in 1..Len(insts[i].log) :
         /\ insts[i].log[k].path = "Outer.Mid.Inner.Last.Field"
         /\ insts[i].log[k].key = "deep_inner_last_field"
    /\ insts[i].fields["Outer.Mid.Inner.Last.Field"] = "last_from_env"

(***************************************************************************)
(* C5: two sub-structures of one type under different prefix chains are    *)
(* resolved independently: a value the environment supplies for the        *)
(* qualified name of one sets that sub-structure's field, and the          *)
(* same-named field of the other, for whose qualified name nothing is      *)
(* supplied, keeps its default (no other structure having declared that    *)
(* name with another default before).                                      *)
(***************************************************************************)
\* pairs of leaves that are the same field of one structure type, reached
\* under different qualified names
SiblingsOf ==
  [t \in Structures |->
     { pair \in TypedLeaves(t) \X TypedLeaves(t) :
         /\ pair[1].field = pair[2].field
         /\ pair[1].path # pair[2].path
         /\ pair[1].field.kind \in {"string", "bool", "int", "float32", "float64"}
         /\ QualifiedName(t, pair[1].path) # QualifiedName(t, pair[2].path) }]

Siblings(t) == SiblingsOf[t]

OwnDefault(q, field) ==
  q \in DOMAIN CommandLine /\ field.tags.type = "string"
    => CommandLine[q].def = field.tags.default

C5_SiblingsIndependent ==
  \A i \in Fresh :
    \A pair \in Siblings(insts[i].t) :
      LET t == insts[i].t
          q1 == QualifiedName(t, pair[1].path)
          q2 == QualifiedName(t, pair[2].path)
          type == pair[1].field.tags.type
      IN  /\ (EnvGiven(q1) /\ ~FlagGiven(q1) /\ ~FileGiven(q1)
                /\ ValidText(type, EnvText(q1)))
             => insts[i].fields[pair[1].path] = FromText(type, EnvText(q1))
          /\ (~Supplied(q2) /\ OwnDefault(q2, pair[2].field)
                /\ ValidText(type, pair[2].field.tags.default))
             => insts[i].fields[pair[2].path] = FromText(type, pair[2].field.tags.default)

\* PRIMARY_DBHOST and REPLICA_DBPORT set: each reaches its own sub-structure
C5_Witness ==
  \E i \in Composed :
    /\ insts[i].t = "ConfigWithPrefix"
    /\ insts[i].fields["PrimaryDB.DBHost"] = "10.0.0.1"
    /\ insts[i].fields["PrimaryDB.DBPort"] = 5432
    /\ insts[i].fields["ReplicaDB.DBHost"] = "localhost"
    /\ insts[i].fields["ReplicaDB.DBPort"] = 5544

(***************************************************************************)
(* C6: within one call, two different named leaves never receive the same  *)
(* qualified name.                                                         *)
(***************************************************************************)
\* the registration pass of the call in progress has run
Registered == call.pc \in {"merge", "generate", "assign", "return"}
RegistrationRan == Registered \/ (call.pc = "define" /\ proc # "running")

C6_NamesUnique ==
  RegistrationRan =>
    \A l1, l2 \in NamedLeaves(insts[call.c].t) :
      l1.path # l2.path
      => QualifiedName(insts[call.c].t, l1.path) # QualifiedName(insts[call.c].t, l2.path)

\* the leaves the registration pass declares a flag for
DeclaredLeavesOf ==
  [t \in Structures |->
     { l \in NamedLeaves(t) : /\ l.field.tags.type \in SupportedTypes
                              /\ l.field.tags.type = "bool"
                                 \/ ValidText(l.field.tags.type, l.field.tags.default) }]

DeclaredLeaves(t) == DeclaredLeavesOf[t]

(***************************************************************************)
(* C6, amended: a registration pass that completes has declared flags of   *)
(* pairwise distinct qualified names, one per leaf it declares; prefix     *)
(* composition alone does not make names unique, and a second declaration  *)
(* of a name in the call's flag set panics.                                *)
(***************************************************************************)
C6_DeclaredNamesUnique ==
  /\ Registered =>
       LET t == insts[call.c].t
       IN  /\ \A l1, l2 \in DeclaredLeaves(t) :
                l1.path # l2.path => QualifiedName(t, l1.path) # QualifiedName(t, l2.path)
           /\ DOMAIN call.fs.flags = { QualifiedName(t, l.path) : l \in DeclaredLeaves(t) }
  /\ \A i \in Fresh :
       \A l1, l2 \in DeclaredLeaves(insts[i].t) :
         l1.path # l2.path
         => QualifiedName(insts[i].t, l1.path) # QualifiedName(insts[i].t, l2.path)

\* the registration pass of a structure with two sub-structures of one type
\* has completed, having declared both sets of flags under distinct names
C6_Witness ==
  /\ Registered
  /\ insts[call.c].t = "ConfigWithPrefix"
  /\ {"primary_dbhost", "replica_dbhost"} \subseteq DOMAIN call.fs.flags
  /\ Cardinality(DOMAIN call.fs.flags) = Cardinality(DeclaredLeaves("ConfigWithPrefix"))

(***************************************************************************)
(* C7: a leaf without a declared name holds its zero value after           *)
(* NewConfig, whatever its other tags and the environment.                 *)
(***************************************************************************)
C7_NamelessZero ==
  \A i \in Composed :
    \A l \in Leaves(insts[i].t, "") :
      l.field.tags.name = "" => insts[i].fields[l.path] = ZeroValue(l.field.kind)

(***************************************************************************)
(* C8: during one call the Parse hook of every structure instance that     *)
(* has one is invoked exactly once, and only after every field of that     *)
(* level, nested ones included, has been assigned; also when the           *)
(* sub-structure is embedded in its parent.                                *)
(***************************************************************************)
RECURSIVE StructsOf(_, _)
\* the structure instances inside a value of type t at path: [path, t]
StructsOf(t, path) ==
  { [path |-> path, t |-> t] } \cup
  UNION { IF Fields(t)[k].kind = "struct"
          THEN StructsOf(Fields(t)[k].styp, PathJoin(path, Fields(t)[k].fname))
          ELSE {} : k \in 1..Len(Fields(t)) }

StructInstances == [t \in Structures |-> StructsOf(t, "")]

\* path p lies inside the structure instance at path s
Inside(p, s) == s = "" \/ (Len(p) > Len(s) /\ SubSeq(p, 1, Len(s) + 1) = s \o ".")

C8_HookOnce ==
  \A i \in Composed :
    \A s \in StructInstances[insts[i].t] :
      s.t \in DeclaresParse =>
        LET log == insts[i].log
            calls == { k \in 1..Len(log) : log[k].ev = "hook" /\ log[k].recv = s.path }
        IN  /\ Cardinality(calls) = 1
            /\ \A k \in calls :
                 \A m \in 1..Len(log) :
                   (log[m].ev = "set" /\ Inside(log[m].path, s.path)) => m < k

(***************************************************************************)
(* C9: merging into the process-wide flag set is idempotent by name: a     *)
(* step never changes or removes a declaration the set already holds, and  *)
(* the merge step never fails, so NewConfig with merging succeeds on a     *)
(* structure whose flags are all declared already.                         *)
(***************************************************************************)
Declaration(flag) == [vtype |-> flag.vtype, def |-> flag.def]

C9_MergeIdempotent ==
  [][ /\ \A n \in DOMAIN CommandLine :
           /\ n \in DOMAIN CommandLine'
           /\ Declaration(CommandLine'[n]) = Declaration(CommandLine[n])
      /\ (call.pc = "merge" /\ proc = "running") => (proc' = "running" /\ call'.pc = "generate")
    ]_vars

\* NewConfig with merging has composed two instances of one structure
C9_Witness ==
  \E i, j \in Composed :
    /\ i < j
    /\ insts[i].t = insts[j].t
    /\ insts[i].merged /\ insts[j].merged
    /\ Cardinality(DOMAIN CommandLine) > 1

(***************************************************************************)
(* C10: two instances of one structure composed under the same             *)
(* environment, flags and file are distinct objects with equal fields, and *)
(* NewConfig returns the instance it was given.                            *)
(***************************************************************************)
\* the flags and file keys the resolver of instance i was built on
View(i) == [pflags |-> insts[i].viper.pflags, config |-> insts[i].viper.config]

Threads == {1, 2}

ThreadIdle == [pc |-> "idle", c |-> 0, fs |-> NewFlagSet, touched |-> {}]

\* the structures the threads compose
ThreadStructures == { "AllTypesConfig", "SimpleCfg", "LooseConfig" }

\* the flag set thread th supplies
OwnSet(th) == "fs" \o NatToString(th)

\* how the Go runtime ends a process in which it detects a racing map access
RaceOutcomes ==
  { "fatal error: concurrent map writes",
    "fatal error: concurrent map read and map write" }

InitConcurrent ==
  /\ \E w \in Worlds : env = w.env /\ args = w.args /\ files = w.files
  /\ CommandLine = <<>>
  /\ insts = <<>>
  /\ call = [th \in Threads |-> ThreadIdle]
  /\ proc = "running"

\* thread th allocates &t{} and its flag set and calls NewConfigWithFlagSet
ThreadStart(th, t) ==
  /\ proc = "running"
  /\ call[th].pc = "idle"
  /\ insts' = Append(insts, NewInstance(t))
  /\ call' = [call EXCEPT ![th] = [pc |-> "define", c |-> Len(insts) + 1,
                                   fs |-> NewFlagSet, touched |-> {}]]
  /\ UNCHANGED <<env, args, files, CommandLine, proc>>

\* defineFlagsFromStruct(reflect.TypeOf(c).Elem(), fs)
ThreadDefine(th) ==
  /\ proc = "running"
  /\ call[th].pc = "define"
  /\ \E fs \in { defineFlagsFromStruct(insts[call[th].c].t, call[th].fs) } :
         IF fs.panic # ""
         THEN /\ proc' = "panic: " \o fs.panic
              /\ call' = call
         ELSE /\ proc' = proc
              /\ call' = [call EXCEPT ![th].pc = "lookup", ![th].fs = fs,
                                      ![th].touched = @ \cup {OwnSet(th)}]
  /\ UNCHANGED <<env, args, files, CommandLine, insts>>

\* generate: pflag.CommandLine.Lookup("config") == nil
ThreadLookup(th) ==
  /\ proc = "running"
  /\ call[th].pc = "lookup"
  /\ call' = [call EXCEPT ![th].pc = IF Lookup([flags |-> CommandLine, panic |-> ""], "config")
                                     THEN "viper" ELSE "add",
                          ![th].touched = @ \cup {"CommandLine"}]
  /\ UNCHANGED <<env, args, files, CommandLine, insts, proc>>

\* generate: pflag.CommandLine.AddFlagSet(fs) with the config flag
ThreadAddFlagSet(th) ==
  /\ proc = "running"
  /\ call[th].pc = "add"
  /\ CommandLine' = AddFlagSet([flags |-> CommandLine, panic |-> ""],
                               AddFlag(NewFlagSet, "config", NewFlag("string", ""))).flags
  /\ call' = [call EXCEPT ![th].pc = "viper"]
  /\ UNCHANGED <<env, args, files, insts, proc>>

\* generate: c.viper = CreateViper()
ThreadCreateViper(th) ==
  /\ proc = "running"
  /\ call[th].pc = "viper"
  /\ \E missing \in MissingFileMessages :
       \E r \in { CreateViper(CommandLine, call[th].c, missing) } :
           /\ CommandLine' = r.flags
           /\ IF r.exit
              THEN proc' = "exit" /\ UNCHANGED <<insts, call>>
              ELSE IF r.panic # ""
              THEN proc' = "panic: " \o r.panic /\ UNCHANGED <<insts, call>>
              ELSE /\ insts' = [insts EXCEPT ![call[th].c].viper = r.viper]
                   /\ call' = [call EXCEPT ![th].pc = "assign"]
                   /\ proc' = proc
  /\ UNCHANGED <<env, args, files>>

\* setPropertiesFromFlags(reflect.ValueOf(c), c.getParser()): the resolver
\* reads the flags of pflag.CommandLine
ThreadAssign(th) ==
  /\ proc = "running"
  /\ call[th].pc = "assign"
  /\ \E st \in { setPropertiesFromFlags(insts[call[th].c].t,
                                          [fields |-> insts[call[th].c].fields,
                                           log |-> insts[call[th].c].log],
                                          CommandLine, insts[call[th].c].viper) } :
       insts' = [insts EXCEPT ![call[th].c].fields = st.fields,
                              ![call[th].c].log = st.log]
  /\ call' = [call EXCEPT ![th].pc = "return"]
  /\ UNCHANGED <<env, args, files, CommandLine, proc>>

\* return c
ThreadReturn(th) ==
  /\ proc = "running"
  /\ call[th].pc = "return"
  /\ insts' = [insts EXCEPT ![call[th].c].returned = call[th].c]
  /\ call' = [call EXCEPT ![th].pc = "done"]
  /\ UNCHANGED <<env, args, files, CommandLine, proc>>

\* thread th is about to write pflag.CommandLine while the other thread is
\* between its accesses to it: the runtime may stop the process
ThreadRace(th) ==
  /\ proc = "running"
  /\ call[th].pc \in {"add", "viper"}
  /\ \E o \in Threads \ {th} : call[o].pc \in {"add", "viper", "assign"}
  /\ \E outcome \in RaceOutcomes : proc' = outcome
  /\ UNCHANGED <<env, args, files, CommandLine, insts, call>>

NextConcurrent ==
  \E th \in Threads :
    \/ \E t \in ThreadStructures : ThreadStart(th, t)
    \/ ThreadDefine(th)
    \/ ThreadLookup(th)
    \/ ThreadAddFlagSet(th)
    \/ ThreadCreateViper(th)
    \/ ThreadAssign(th)
    \/ ThreadReturn(th)
    \/ ThreadRace(th)

SpecConcurrent == InitConcurrent /\ [][NextConcurrent]_vars

(***************************************************************************)
(* C11: NewConfigWithFlagSet never merges and does not touch the           *)
(* process-wide flag set: no step of a NewConfigWithFlagSet call changes   *)
(* pflag.CommandLine, so the set is the same before and after the call.    *)
(***************************************************************************)
C11_ProcessFlagsUntouched ==
  [][ call.op = "NewConfigWithFlagSet" => CommandLine' = CommandLine ]_vars

(***************************************************************************)
(* C12: in NewConfigWithFlagSet the resolver reads flag values from the    *)
(* caller's flag set: a value set there under a field's qualified name is  *)
(* the value of the field, and a value set only in the process-wide flag   *)
(* set is not used: the field then comes from the environment, the file    *)
(* or the default.                                                         *)
(***************************************************************************)
AssignedKinds == {"string", "bool", "int", "float32", "float64"}

C12_ReadsSuppliedSet ==
  (call.pc = "return" /\ call.op = "NewConfigWithFlagSet") =>
    \A l \in TypedLeaves(insts[call.c].t) :
      LET q == QualifiedName(insts[call.c].t, l.path)
          type == l.field.tags.type
          value == insts[call.c].fields[l.path]
          supplied == q \in DOMAIN call.fs.flags /\ call.fs.flags[q].changed
      IN  l.field.kind \in AssignedKinds =>
            /\ (supplied /\ ValidText(type, call.fs.flags[q].value))
                 => value = FromText(type, call.fs.flags[q].value)
            /\ (/\ ~supplied
                /\ q \in DOMAIN CommandLine /\ CommandLine[q].changed
                /\ EnvGiven(q) /\ ValidText(type, EnvText(q)))
                 => value = FromText(type, EnvText(q))

(***************************************************************************)
(* C13: two NewConfigWithFlagSet calls running concurrently with disjoint  *)
(* flag sets read and write no common flag set, in any interleaving: the   *)
(* flag sets one thread touches are touched by no other thread, and no     *)
(* interleaving ends the process in a racing access.                       *)
(***************************************************************************)
C13_DisjointFlagState ==
  /\ \A th, o \in Threads : th # o => call[th].touched \cap call[o].touched = {}
  /\ proc \notin RaceOutcomes

(***************************************************************************)
(* C14: when the config key resolves to a non-empty path, a file that does *)
(* not exist and a file that cannot be parsed are both fatal: the call     *)
(* does not get past generate and no instance is populated; the first ends *)
(* with "Could not find configuration file", the second with "Could not    *)
(* parse configuration file".                                              *)
(***************************************************************************)
\* generate has ended the process in the call in progress
GenerateFailed == call.pc = "generate" /\ proc # "running"

ConfigMissing == ConfigPath # "" /\ ConfigPath \notin DOMAIN files

ConfigUnparseable ==
  ConfigPath # "" /\ ConfigPath \in DOMAIN files /\ ~files[ConfigPath].ok

C14_FatalKinds ==
  /\ (ConfigMissing \/ ConfigUnparseable) =>
       /\ Composed = {}
       /\ call.pc \notin {"assign", "return"}
       /\ \A i \in 1..Len(insts) : insts[i].fields = NewInstance(insts[i].t).fields
  /\ (ConfigMissing /\ GenerateFailed)
       => proc = "panic: Could not find configuration file"
  /\ (ConfigUnparseable /\ GenerateFailed)
       => proc = "panic: Could not parse configuration file"

(***************************************************************************)
(* C15: HasConfig(T) on a composed instance is true exactly when the       *)
(* composed structure has a sub-structure of type T, T given as a value    *)
(* or as a pointer to it.                                                  *)
(***************************************************************************)
\* structure t has a field that is a sub-structure of type T
EmbedsType(t, T) ==
  \E k \in 1..Len(Fields(t)) : Fields(t)[k].kind = "struct" /\ Fields(t)[k].styp = T

C15_HasConfigExact ==
  \A i \in Composed :
    \A T \in TypeNames :
      /\ HasConfig(ValueOf(T)) = EmbedsType(insts[i].t, T)
      /\ HasConfig(PointerTo(T)) = EmbedsType(insts[i].t, T)

BoolLeaves(t) == { l \in NamedLeaves(t) : l.field.kind = "bool" }

\* the text the highest source gives for q, "" when none does or when the
\* file gives a value that is no text
ExplicitText(q) ==
  IF FlagGiven(q) THEN FlagText(q)
  ELSE IF EnvGiven(q) THEN EnvText(q)
  ELSE IF FileGiven(q) /\ FileData[q].t = "s" THEN FileData[q].v
  ELSE IF FileGiven(q) /\ FileData[q].t = "b" THEN FormatBool(FileData[q].v)
  ELSE ""

C17_BoolDefaultExact ==
  /\ \A i \in Fresh :
       \A l \in BoolLeaves(insts[i].t) :
         LET q == QualifiedName(insts[i].t, l.path)
         IN  /\ ~Supplied(q) => insts[i].fields[l.path] = (l.field.tags.default = "true")
             /\ ExplicitText(q) \in {"true", "false"}
                  => insts[i].fields[l.path] = (ExplicitText(q) = "true")
  /\ (Registered /\ call.op = "NewConfig") =>
       \A l \in BoolLeaves(insts[call.c].t) :
         LET q == QualifiedName(insts[call.c].t, l.path)
         IN  l.field.tags.type = "bool" =>
               /\ q \in DOMAIN call.fs.flags
               /\ call.fs.flags[q].vtype = "bool"
               /\ call.fs.flags[q].def = FormatBool(l.field.tags.default = "true")

\* defaults "TRUE", "1" and "" gave false, and the environment overrode the
\* defaults "true" and "false" of two other fields
C17_Witness ==
  /\ \E i \in Composed :
       /\ insts[i].t = "LooseConfig"
       /\ ~Supplied("loose_upper") /\ ~Supplied("loose_one") /\ ~Supplied("loose_blank")
       /\ insts[i].fields["Loose.Upper"] = FALSE
       /\ insts[i].fields["Loose.One"] = FALSE
       /\ insts[i].fields["Loose.Blank"] = FALSE
  /\ \E i \in Composed :
       /\ insts[i].t = "AllTypesConfig"
       /\ EnvGiven("test_bool_true") /\ EnvText("test_bool_true") = "false"
       /\ EnvGiven("test_bool_false") /\ EnvText("test_bool_false") = "true"
       /\ insts[i].fields["TypesStruct.BoolFieldT"] = FALSE
       /\ insts[i].fields["TypesStruct.BoolFieldF"] = TRUE

(***************************************************************************)
(* C18: the registration pass and the assignment pass mirror each other:   *)
(* the key the assignment pass reads for a named leaf is the qualified     *)
(* name the registration pass declares its flag under, and the leaves the  *)
(* assignment pass assigns are the leaves the registration pass declares.  *)
(***************************************************************************)
\* the paths of the leaves the assignment pass has assigned in instance i
AssignedPaths(i) ==
  { insts[i].log[k].path : k \in { n \in 1..Len(insts[i].log) : insts[i].log[n].ev = "set" } }

C18_PassesMirror ==
  \A i \in Composed :
    /\ \A k \in 1..Len(insts[i].log) :
         LET e == insts[i].log[k]
         IN  (e.ev = "set" /\ e.path \in { l.path : l \in DeclaredLeaves(insts[i].t) })
             => e.key = QualifiedName(insts[i].t, e.path)
    /\ AssignedPaths(i) = { l.path : l \in DeclaredLeaves(insts[i].t) }

(***************************************************************************)
(* C19: a named boolean, integer or float field holds the resolved value   *)
(* exactly when the resolver reports its qualified name as set, which is   *)
(* when a flag, the environment or the file gives it; otherwise it holds   *)
(* the value parsed from its own default string, never the default of a    *)
(* flag declaration.                                                       *)
(***************************************************************************)
NumericLeaves(t) ==
  { l \in NamedLeaves(t) : l.field.kind \in {"bool", "int", "float32", "float64"} }

\* the value the resolver returns for key, converted as the field's kind asks
ResolvedAs(kind, i, key) ==
  CASE kind = "bool" -> GetBool(CommandLine, insts[i].viper, key)
    [] kind = "int" -> GetInt64(CommandLine, insts[i].viper, key)
    [] kind = "float32" -> Float32Of(GetFloat64(CommandLine, insts[i].viper, key))
    [] kind = "float64" -> GetFloat64(CommandLine, insts[i].viper, key)

\* the default string parsed for the field's kind, the zero value when it
\* does not parse
ParsedDefault(kind, default) ==
  CASE kind = "bool" -> default = "true"
    [] kind = "int" -> Atoi(default).val
    [] kind = "float32" -> Float32Of(ParseFloat(default, 32).val)
    [] kind = "float64" -> ParseFloat(default, 64).val

C19_SetOrOwnDefault ==
  \A i \in Fresh :
    \A l \in NumericLeaves(insts[i].t) :
      LET q == QualifiedName(insts[i].t, l.path)
          set == IsSet(CommandLine, insts[i].viper, q)
      IN  /\ set = Supplied(q)
          /\ insts[i].fields[l.path] =
               IF set THEN ResolvedAs(l.field.kind, i, q)
               ELSE ParsedDefault(l.field.kind, l.field.tags.default)

\* test_int was declared first by another structure with default 7; the
\* integer field of a later structure, with nothing supplied, holds its own 42
C19_Witness ==
  \E i \in Composed :
    /\ insts[i].t = "AllTypesConfig"
    /\ "test_int" \in DOMAIN insts[i].viper.pflags
    /\ CommandLine["test_int"].def = "7"
    /\ ~Supplied("test_int")
    /\ insts[i].fields["TypesStruct.IntField"] = 42

(***************************************************************************)
(* C20: a field whose default string does not parse for its declared type  *)
(* (integer, float, duration) is left out of flag declaration and of       *)
(* assignment without an error: no flag is declared for it, and the field  *)
(* keeps its zero value even when the environment has a variable of its    *)
(* qualified name.                                                         *)
(***************************************************************************)
BadDefaultLeaves(t) ==
  { l \in NamedLeaves(t) : /\ l.field.tags.type \in {"int", "float32", "float64", "duration"}
                           /\ ~ValidText(l.field.tags.type, l.field.tags.default) }

C20_BadDefaultExcluded ==
  /\ (Registered /\ call.op = "NewConfig") =>
       \A l \in BadDefaultLeaves(insts[call.c].t) :
         QualifiedName(insts[call.c].t, l.path) \notin DOMAIN call.fs.flags
  /\ \A i \in Composed :
       \A l \in BadDefaultLeaves(insts[i].t) :
         insts[i].fields[l.path] = ZeroValue(l.field.kind)

(***************************************************************************)
(* C21: a leaf with a name and no declared type, or a declared type        *)
(* outside the supported set, is ignored: no flag is declared for it and   *)
(* the assignment pass leaves it at its zero value, whatever default or    *)
(* environment value exists for its name.                                  *)
(***************************************************************************)
UntypedLeaves(t) == { l \in NamedLeaves(t) : l.field.tags.type \notin SupportedTypes }

C21_UntypedIgnored ==
  /\ (Registered /\ call.op = "NewConfig") =>
       \A l \in UntypedLeaves(insts[call.c].t) :
         QualifiedName(insts[call.c].t, l.path) \notin DOMAIN call.fs.flags
  /\ \A i \in Composed :
       \A l \in UntypedLeaves(insts[i].t) :
         insts[i].fields[l.path] = ZeroValue(l.field.kind)

(***************************************************************************)
(* C22: when two leaves of one structure compose to the same qualified     *)
(* name, the registration pass does not detect it: the later declaration   *)
(* replaces the earlier one in the call's flag set and NewConfig goes on   *)
(* without error.                                                          *)
(***************************************************************************)
\* the qualified names that two declared leaves of t compose to
CollidingNames(t) ==
  { QualifiedName(t, l1.path) : l1 \in { l \in DeclaredLeaves(t) :
      \E l2 \in DeclaredLeaves(t) :
        l2.path # l.path /\ QualifiedName(t, l2.path) = QualifiedName(t, l.path) } }

C22_CollisionOverwrites ==
  (call.op = "NewConfig" /\ RegistrationRan /\ CollidingNames(insts[call.c].t) # {})
  => /\ Registered
     /\ CollidingNames(insts[call.c].t) \subseteq DOMAIN call.fs.flags

(***************************************************************************)
(* C23: a configuration file is read only if the config key resolves to a  *)
(* non-empty path: with no --config flag and no CONFIG variable (or an     *)
(* empty one) no file is read, and the process cannot end in either fatal  *)
(* file condition.                                                         *)
(***************************************************************************)
FileFatal ==
  proc \in { "panic: Could not find configuration file",
             "panic: Could not parse configuration file" }

C23_NoPathNoFile ==
  ConfigPath = "" =>
    /\ ~FileFatal
    /\ \A i \in 1..Len(insts) : insts[i].viper.config = <<>>

\* a call has got past generate with CONFIG set to the empty string and the
\* files present: the resolver holds no file value
C23_Witness ==
  /\ "CONFIG" \in DOMAIN env /\ ConfigPath = ""
  /\ "app.yaml" \in DOMAIN files
  /\ \E i \in Composed : insts[i].viper.valid /\ insts[i].viper.config = <<>>

(***************************************************************************)
(* C24: NewConfig performs its steps in the order registration pass,       *)
(* optional merge, generate, assignment pass, return: no field is assigned *)
(* and no hook is invoked before the resolver exists, every hook receives  *)
(* the resolver built in that call, and after the return getParser yields  *)
(* that same resolver, which is not nil.                                   *)
(***************************************************************************)
\* c.getParser() on instance i
getParser(i) == insts[i].viper

\* the steps of one call, each with the step that follows it
StepOrder ==
  { <<"idle", "define">>, <<"define", "merge">>, <<"merge", "generate">>,
    <<"generate", "assign">>, <<"assign", "return">>, <<"return", "idle">> }

\* each step of a call does its own work and hands over to the next
C24_StepInOrder ==
  /\ call'.pc # call.pc => <<call.pc, call'.pc>> \in StepOrder
  /\ (call'.fs # call.fs /\ call'.pc # "idle") => call.pc = "define"
  /\ CommandLine' # CommandLine => call.pc \in {"merge", "generate"}
  /\ \A i \in 1..Len(insts) :
       /\ insts'[i].viper # insts[i].viper => (call.pc = "generate" /\ call.c = i)
       /\ (insts'[i].fields # insts[i].fields \/ insts'[i].log # insts[i].log)
            => (call.pc = "assign" /\ call.c = i /\ getParser(i).valid)
       /\ insts'[i].returned # insts[i].returned => (call.pc = "return" /\ call.c = i)

\* what the instances show of the order at any moment
C24_ResolverFirst ==
  \A i \in 1..Len(insts) :
    /\ (insts[i].log # <<>> \/ insts[i].fields # NewInstance(insts[i].t).fields)
         => getParser(i).valid
    /\ \A k \in 1..Len(insts[i].log) : insts[i].log[k].arg = i
    /\ getParser(i).valid => getParser(i).id = i
    /\ i \in Composed => getParser(i).valid

C24_FixedOrder == []C24_ResolverFirst /\ [][C24_StepInOrder]_vars

\* NewConfig has returned an instance whose hooks ran, on its own resolver
C24_Witness ==
  \E i \in Composed :
    /\ insts[i].t = "HookConfig"
    /\ \E k \in 1..Len(insts[i].log) :
         insts[i].log[k].ev = "hook" /\ insts[i].log[k].arg = getParser(i).id
    /\ i = 2

(***************************************************************************)
(* C25: after NewConfig with merging enabled, the process-wide flag set    *)
(* holds a flag under the qualified name of every leaf with a name, a      *)
(* supported declared type and a parseable default, and none for a leaf    *)
(* without a name; with merging disabled, the call adds none of the        *)
(* structure's field flags to the process-wide flag set.                   *)
(***************************************************************************)
\* the named leaves of a supported declared type whose default is a literal
\* of that type
ParseableLeaves(t) ==
  { l \in NamedLeaves(t) : /\ l.field.tags.type \in SupportedTypes
                           /\ ValidText(l.field.tags.type, l.field.tags.default) }

NamelessLeaves(t) == Leaves(t, "") \ NamedLeaves(t)

C25_MergedDeclared ==
  \A i \in Composed :
    insts[i].merged =>
      /\ \A l \in ParseableLeaves(insts[i].t) :
           QualifiedName(insts[i].t, l.path) \in DOMAIN CommandLine
      /\ \A l \in NamelessLeaves(insts[i].t) :
           /\ QualifiedName(insts[i].t, l.path) \notin DOMAIN CommandLine
           /\ l.field.tags.name \notin DOMAIN CommandLine

\* a call that does not merge adds the config flag at most
C25_UnmergedAddsNone ==
  (call.pc # "idle" /\ call.op = "NewConfig"
     /\ (call.pc = "merge" => call.merge = <<FALSE>>)
     /\ (call.pc # "merge" => ~insts[call.c].merged))
  => DOMAIN CommandLine' \ DOMAIN CommandLine \subseteq {"config"}

C25_MergeDeclares == []C25_MergedDeclared /\ [][C25_UnmergedAddsNone]_vars

\* one structure composed with merging, nameless leaves and all, and one
\* composed without, whose flag the process-wide set lacks
C25_Witness ==
  \E i, j \in Composed :
    /\ insts[i].t = "LooseConfig" /\ insts[i].merged
    /\ "loose_with_tag" \in DOMAIN CommandLine
    /\ insts[j].t = "SimpleCfg" /\ ~insts[j].merged
    /\ "merge_test_field" \notin DOMAIN CommandLine

(***************************************************************************)
(* C26: once NewConfig has returned an instance, no later NewConfig or     *)
(* NewConfigWithFlagSet call on another instance changes any of its        *)
(* fields, whatever the environment and the flag state.                    *)
(***************************************************************************)
C26_ReturnedFrozen ==
  [][ \A i \in Composed : /\ insts'[i].fields = insts[i].fields
                          /\ insts'[i].returned = insts[i].returned ]_vars

\* a second call, through NewConfigWithFlagSet, has run its assignment pass
\* after a first instance was returned with values from the environment
C26_Witness ==
  /\ call.op = "NewConfigWithFlagSet" /\ call.pc = "return" /\ call.c = 2
  /\ 1 \in Composed
  /\ insts[1].fields # NewInstance(insts[1].t).fields
  /\ insts[2].fields # NewInstance(insts[2].t).fields
  /\ insts[1].t # insts[2].t
  /\ env # <<>>

(***************************************************************************)
(* C27: hooks run in post-order: within one NewConfig call the Parse hook  *)
(* of a nested sub-structure is invoked before the Parse hook of any       *)
(* structure that contains it, the hooks of sibling sub-structures run in  *)
(* field declaration order, and the root structure's hook is the last one  *)
(* invoked.  A hook is taken by the level it is invoked for.               *)
(***************************************************************************)
RECURSIVE PostOrder(_, _, _)
\* the levels of a value of type t at path that have a Parse method, the
\* levels under the fields from i on first, in declaration order, then the
\* level itself
PostOrder(t, i, path) ==
  IF i > Len(Fields(t))
  THEN IF MethodByName(t).valid THEN <<path>> ELSE <<>>
  ELSE (IF Fields(t)[i].kind = "struct"
        THEN PostOrder(Fields(t)[i].styp, 1, PathJoin(path, Fields(t)[i].fname))
        ELSE <<>>) \o PostOrder(t, i + 1, path)

PostOrderOf == [t \in Structures |-> PostOrder(t, 1, "")]

IsHook(e) == e.ev = "hook"

\* the levels the hooks of instance i were invoked for, in order
HookLevels(i) ==
  [k \in 1..Len(SelectSeq(insts[i].log, IsHook)) |-> SelectSeq(insts[i].log, IsHook)[k].path]

C27_HooksPostOrder ==
  \A i \in Fresh :
    LET levels == HookLevels(i)
    IN  /\ levels = PostOrderOf[insts[i].t]
        /\ \A k, m \in 1..Len(levels) :
             (levels[k] # levels[m] /\ Inside(levels[k], levels[m])) => k < m
        /\ MethodByName(insts[i].t).valid
             => (insts[i].log # <<>> /\ insts[i].log[Len(insts[i].log)].ev = "hook"
                   /\ insts[i].log[Len(insts[i].log)].path = "")

\* an instance with hooks at the root, at two sibling levels and at a level
\* nested in the second sibling has been composed
C27_Witness ==
  \E i \in Composed :
    /\ insts[i].t = "HookConfig"
    /\ HookLevels(i) = <<"HookEmbedded", "Named.HookLeaf", "Named", "">>

(***************************************************************************)
(* C28: the values a NewConfig call populates are determined only by the   *)
(* structure's own field declarations and the current flag, environment    *)
(* and file values: an earlier merging NewConfig call on another structure *)
(* type that declared the same qualified name with a different default     *)
(* changes no value of the later call, whatever the later call's merge     *)
(* setting.  With no flag, environment or file value for the name, the     *)
(* later call populates its own default.                                   *)
(***************************************************************************)
\* leaf m of structure u declares the qualified name of leaf l of structure
\* t, with another default
DeclaredElsewhere(t, l, u, m) ==
  /\ u # t
  /\ QualifiedName(u, m.path) = QualifiedName(t, l.path)
  /\ m.field.tags.default # l.field.tags.default

C28_EarlierCallNoInfluence ==
  \A i, j \in Composed :
    (j < i /\ insts[j].merged) =>
      \A l \in TypedLeaves(insts[i].t) :
        \A m \in DeclaredLeaves(insts[j].t) :
          ( /\ DeclaredElsewhere(insts[i].t, l, insts[j].t, m)
            /\ ~Supplied(QualifiedName(insts[i].t, l.path))
            /\ ValidText(l.field.tags.type, l.field.tags.default) )
          => insts[i].fields[l.path] = FromText(l.field.tags.type, l.field.tags.default)

(***************************************************************************)
(* C29: after any sequence of NewConfig and NewConfigWithFlagSet calls     *)
(* with any merge settings, the config flag is declared in the             *)
(* process-wide flag set exactly once: generate adds it only when it is    *)
(* absent, and no call fails because config is already declared.           *)
(***************************************************************************)
\* some call has got past generate
Generated == \E i \in 1..Len(insts) : insts[i].viper.valid

C29_ConfigDeclared ==
  /\ proc # "panic: config flag redefined: config"
  /\ Generated =>
       /\ "config" \in DOMAIN CommandLine
       /\ CommandLine["config"].vtype = "string"
       /\ CommandLine["config"].def = ""

\* a declared config flag stays the flag that was declared
C29_ConfigKept ==
  "config" \in DOMAIN CommandLine =>
    /\ "config" \in DOMAIN CommandLine'
    /\ Declaration(CommandLine'["config"]) = Declaration(CommandLine["config"])

C29_ConfigOnce == []C29_ConfigDeclared /\ [][C29_ConfigKept]_vars

\* a NewConfigWithFlagSet call has got through generate and the assignment
\* pass after a merging NewConfig call had declared config
C29_Witness ==
  /\ 1 \in Composed /\ insts[1].merged
  /\ call.op = "NewConfigWithFlagSet" /\ call.pc = "return" /\ call.c = 2
  /\ insts[2].viper.valid /\ insts[2].viper.id = 2
  /\ "config" \in DOMAIN CommandLine
  /\ proc = "running"

(***************************************************************************)
(* C30: for every finite nested structure definition, with no              *)
(* configuration file specified, NewConfig terminates and returns: both    *)
(* walks visit each field of each nesting level once and the call has no   *)
(* suspension point or retry.                                              *)
(***************************************************************************)
\* the assignment pass has assigned no leaf of an instance twice
AssignedOnce ==
  \A i \in 1..Len(insts) :
    \A k, m \in 1..Len(insts[i].log) :
      (k # m /\ insts[i].log[k].ev = "set" /\ insts[i].log[m].ev = "set")
      => insts[i].log[k].path # insts[i].log[m].path

\* Each step of a call is a computation over the finite structure, taken as
\* soon as the one before it is done; a call fails to return exactly when
\* the process ends inside it.
C30_TerminatesAndReturns ==
  /\ AssignedOnce
  /\ (call.pc # "idle" /\ call.op = "NewConfig" /\ ConfigPath = "")
       => proc = "running"

====
